---- MODULE Spec2Model ----
(***************************************************************************)
(* A model of the rocks tree-walking interpreter: the resolver             *)
(* (src/src/resolver.rs), the environment chain (src/src/environment.rs),  *)
(* functions and classes (src/src/function.rs, src/src/class.rs) and the   *)
(* evaluator (src/src/interpreter.rs).                                     *)
(*                                                                         *)
(* The recursive Rust evaluator is modelled as a small-step machine: `ctl` *)
(* is the node being visited (or the value / statement result that was     *)
(* just returned) and `kont` is the Rust call stack, one frame per handler *)
(* activation that is waiting for a sub-evaluation to return.              *)
(***************************************************************************)
EXTENDS Integers, Sequences, FiniteSets, TLC

\* ------------------------------------------------------------------------
\* Bounds
\* ------------------------------------------------------------------------

\* Largest number of environment frames a run may allocate.
MaxEnvs == 14

\* ------------------------------------------------------------------------
\* Values: object.rs `Object`, literal.rs `Literal`
\* ------------------------------------------------------------------------

Null == [k |-> "null", v |-> 0]
Bool(b) == [k |-> "bool", v |-> IF b THEN 1 ELSE 0]
Number(n) == [k |-> "num", v |-> n]
String(s) == [k |-> "str", v |-> s]

\* a function that captures the root frame whatever frame declares it
FunctionObj_of_root(decl, closure, is_initializer) ==
    [k |-> "function", name |-> decl.name, params |-> decl.params,
     body |-> decl.body, closure |-> 1, is_initializer |-> is_initializer]

\* Object::Function: a Function struct held by value; the closure is a
\* shared reference (an index into the frame heap).
FunctionObj(decl, closure, is_initializer) ==
    [k |-> "function", name |-> decl.name, params |-> decl.params,
     body |-> decl.body, closure |-> closure, is_initializer |-> is_initializer]

NativeObj(name) == [k |-> "native", name |-> name]
\* Object::Class / Object::Instance: shared references (heap indices).
ClassObj(id) == [k |-> "class", id |-> id]
InstanceObj(id) == [k |-> "instance", id |-> id]

IsLiteral(v) == v.k \in {"null", "bool", "num", "str"}

\* Literal::as_bool
LiteralAsBool(v) ==
    CASE v.k = "bool" -> v.v = 1
      [] v.k = "num"  -> v.v # 0
      [] v.k = "null" -> FALSE
      [] v.k = "str"  -> v.v # ""

\* Truthiness as the evaluator uses it: literals by Literal::as_bool, every
\* other kind of object is true.
AsBool(v) == IF IsLiteral(v) THEN LiteralAsBool(v) ELSE TRUE

\* ------------------------------------------------------------------------
\* Tokens and the AST (token.rs, expr.rs, stmt.rs)
\* ------------------------------------------------------------------------

\* A token is identified by its lexeme and its source location.
Tok(lexeme, loc) == [lexeme |-> lexeme, loc |-> loc]
\* Token::from(&str): a dummy token at location 0:0
TokenFrom(lexeme) == Tok(lexeme, 0)

NoExpr == [t |-> "None"]

Lit(v) == [t |-> "Literal", value |-> v]
Var(name, loc) == [t |-> "Variable", name |-> Tok(name, loc)]
Assign(name, loc, value) == [t |-> "Assign", name |-> Tok(name, loc), value |-> value]
Grouping(e) == [t |-> "Grouping", expr |-> e]
Logical(left, op, right) == [t |-> "Logical", left |-> left, operator |-> op, right |-> right]
Binary(left, op, loc, right) ==
    [t |-> "Binary", left |-> left, operator |-> Tok(op, loc), right |-> right]
Call(callee, loc, arguments) ==
    [t |-> "Call", callee |-> callee, paren |-> Tok(")", loc), arguments |-> arguments]
Get(object, name, loc) == [t |-> "Get", object |-> object, name |-> Tok(name, loc)]
Set(object, name, loc, value) ==
    [t |-> "Set", object |-> object, name |-> Tok(name, loc), value |-> value]
This(loc) == [t |-> "This", keyword |-> Tok("this", loc)]
Super(loc, method, mloc) ==
    [t |-> "Super", keyword |-> Tok("super", loc), method |-> Tok(method, mloc)]

ExprS(e) == [t |-> "Expression", expr |-> e]
PrintS(e) == [t |-> "Print", expr |-> e]
VarS(name, loc, init) == [t |-> "Var", name |-> Tok(name, loc), initializer |-> init]
Block(stmts) == [t |-> "Block", statements |-> stmts]
If(c, then, else) == [t |-> "If", condition |-> c, then_branch |-> then, else_branch |-> else]
While(c, body) == [t |-> "While", condition |-> c, body |-> body]
Fun(name, loc, params, body) ==
    [t |-> "Function", name |-> Tok(name, loc), params |-> params, body |-> body]
Return(loc, value) == [t |-> "Return", keyword |-> Tok("return", loc), value |-> value]
Break == [t |-> "Break"]
Class(name, loc, superclass, methods) ==
    [t |-> "Class", name |-> Tok(name, loc), superclass |-> superclass, methods |-> methods]
NoStmt == [t |-> "None"]

\* Parser::for_statement: `for (init; cond; incr) body` is desugared while
\* parsing into { init; while (cond) { body; incr; } }.
for_statement(initializer, condition, increment, body) ==
    LET body1 == IF increment.t # "None"
                 THEN Block(<<body, ExprS(increment)>>)
                 ELSE body
        body2 == While(IF condition.t # "None" THEN condition ELSE Lit(Bool(TRUE)), body1)
    IN  IF initializer.t # "None" THEN Block(<<initializer, body2>>) ELSE body2

\* ------------------------------------------------------------------------
\* HashMap helpers
\* ------------------------------------------------------------------------

EmptyMap == <<>>
Insert(map, key, value) == (key :> value) @@ map
ContainsKey(map, key) == key \in DOMAIN map

\* ------------------------------------------------------------------------
\* Environment (environment.rs).  A heap `h` of frames; frame 0 is "None".
\* ------------------------------------------------------------------------

\* Environment::new
NewEnvironment(enclosing) == [enclosing |-> enclosing, variables |-> EmptyMap]

\* Environment::define, on frame e of heap h
EnvDefine(h, e, name, value) ==
    [h EXCEPT ![e].variables = Insert(@, name, value)]

\* Environment::ancestor: walk `distance` parent links; 0 when a link is
\* missing (the `expect` panics).
RECURSIVE ancestor(_, _, _)
\* a walk that follows one parent link at most and stops at the root
ancestor_short(h, e, distance) ==
    IF distance = 0 \/ h[e].enclosing = 0 THEN e ELSE h[e].enclosing

ancestor(h, e, distance) ==
    IF distance = 0 THEN e
    ELSE IF h[e].enclosing = 0 THEN 0
    ELSE ancestor(h, h[e].enclosing, distance - 1)

\* Environment::get: search this frame, then the enclosing ones
RECURSIVE get(_, _, _)
get(h, e, name) ==
    IF ContainsKey(h[e].variables, name.lexeme)
    THEN [st |-> "ok", v |-> h[e].variables[name.lexeme]]
    ELSE IF h[e].enclosing # 0 THEN get(h, h[e].enclosing, name)
    ELSE [st |-> "err", v |-> Null]

\* a lookup that ignores the recorded distance and searches the chain
get_at_dynamic(h, e, distance, name) == get(h, e, name)

\* Environment::get_at: "ok" with the value, "err" (RuntimeError) or "panic"
get_at(h, e, distance, name) ==
    LET a == ancestor(h, e, distance) IN
    IF a = 0 THEN [st |-> "panic", v |-> Null]
    ELSE IF ContainsKey(h[a].variables, name.lexeme)
         THEN [st |-> "ok", v |-> h[a].variables[name.lexeme]]
         ELSE [st |-> "err", v |-> Null]

\* Environment::assign: the heap after the assignment and whether the
\* "Undefined variable" error was thrown
RECURSIVE assign(_, _, _, _)
\* an assignment that creates the variable in the frame it is made from
assign_define(h, e, name, value) ==
    [h |-> [h EXCEPT ![e].variables = Insert(@, name.lexeme, value)], st |-> "ok"]

assign(h, e, name, value) ==
    IF ContainsKey(h[e].variables, name.lexeme)
    THEN [h |-> [h EXCEPT ![e].variables = Insert(@, name.lexeme, value)], st |-> "ok"]
    ELSE IF h[e].enclosing # 0 THEN assign(h, h[e].enclosing, name, value)
    ELSE [h |-> h, st |-> "err"]

\* an assignment that lands in the frame it is made from
assign_at_current(h, e, distance, name, value) ==
    [h |-> [h EXCEPT ![e].variables = Insert(@, name.lexeme, value)], st |-> "ok"]

\* Environment::assign_at: inserts into the frame `distance` links up
assign_at(h, e, distance, name, value) ==
    LET a == ancestor(h, e, distance) IN
    IF a = 0 THEN [h |-> h, st |-> "panic"]
    ELSE [h |-> [h EXCEPT ![a].variables = Insert(@, name.lexeme, value)], st |-> "ok"]

\* ------------------------------------------------------------------------
\* Classes and instances (class.rs).  `cs` is the heap of Rc<RefCell<Class>>
\* ------------------------------------------------------------------------

NoObject == [k |-> "none"]

\* Class::new
NewClass(name, superclass, methods) ==
    [name |-> name, superclass |-> superclass, methods |-> methods]

NoFunction == [k |-> "none"]

\* Class::get_method: own methods first, then the superclass chain
RECURSIVE get_method(_, _, _)
\* a lookup that stops at the class itself
get_method_own(cs, c, name) ==
    IF ContainsKey(cs[c].methods, name) THEN cs[c].methods[name] ELSE NoFunction

get_method(cs, c, name) ==
    IF ContainsKey(cs[c].methods, name) THEN cs[c].methods[name]
    ELSE IF cs[c].superclass.k = "class" THEN get_method(cs, cs[c].superclass.id, name)
    ELSE NoFunction

\* Function::arity
function_arity(f) == Len(f.params)

\* Class::arity
class_arity(cs, c) ==
    LET initializer == get_method(cs, c, "init") IN
    IF initializer.k # "none" THEN function_arity(initializer) ELSE 0

\* NativeFunction::arity
native_arity == 0

\* ------------------------------------------------------------------------
\* Errors (error.rs): what `throw` prints, as a record
\* ------------------------------------------------------------------------

ErrorRec(kind, message, token, a, b) ==
    [kind |-> kind, message |-> message, token |-> token, a |-> a, b |-> b]
ResolveError(token, message) == ErrorRec("resolve", message, token, 0, 0)
RuntimeError(token, message) == ErrorRec("runtime", message, token, 0, 0)
\* an error of the scanner or of the parser; the model keeps which pass
\* reported it, not where
FrontError(pass) == ErrorRec(pass, "front end error", [lexeme |-> "", loc |-> 0], 0, 0)
\* "Expected {} arguments but got {}"
ArityError(token, expected, got) ==
    ErrorRec("runtime", "Expected arguments but got", token, expected, got)

\* ------------------------------------------------------------------------
\* Resolver (resolver.rs).  `rs` is the Resolver struct together with the
\* interpreter's `locals` table it fills and the errors it has thrown.
\* ------------------------------------------------------------------------

\* Resolver::new, over an interpreter whose table is `locals0`
NewResolver(locals0) ==
    [scopes |-> <<>>, current_function |-> "None", current_class |-> "None",
     locals |-> locals0, errors |-> <<>>]

rs_throw(rs, err) == [rs EXCEPT !.errors = Append(@, err)]

begin_scope(rs) == [rs EXCEPT !.scopes = Append(@, EmptyMap)]

end_scope(rs) == [rs EXCEPT !.scopes = SubSeq(@, 1, Len(@) - 1)]

\* a declaration that accepts a name the scope already holds
declare_unchecked(rs, name) ==
    IF rs.scopes = <<>> THEN rs
    ELSE [rs EXCEPT !.scopes[Len(rs.scopes)] = Insert(@, name.lexeme, FALSE)]

\* Resolver::declare
declare(rs, name) ==
    IF rs.scopes = <<>> THEN rs
    ELSE LET n == Len(rs.scopes)
             rs1 == IF ContainsKey(rs.scopes[n], name.lexeme)
                    THEN rs_throw(rs, ResolveError(name,
                             "A variable is already defined with this name in this scope"))
                    ELSE rs
         IN  [rs1 EXCEPT !.scopes[n] = Insert(@, name.lexeme, FALSE)]

\* Resolver::define
define(rs, name) ==
    IF rs.scopes = <<>> THEN rs
    ELSE [rs EXCEPT !.scopes[Len(rs.scopes)] = Insert(@, name.lexeme, TRUE)]

\* a resolution that records one hop too many
resolve_local_deeper(rs, name) ==
    LET n == Len(rs.scopes)
        hits == {i \in 0..(n - 1) : ContainsKey(rs.scopes[n - i], name.lexeme)}
    IN  IF hits = {} THEN rs
        ELSE LET i == CHOOSE j \in hits : \A j2 \in hits : j <= j2
             IN  [rs EXCEPT !.locals = Insert(@, name, i + 1)]

\* Resolver::resolve_local with Interpreter::resolve: the innermost scope
\* that contains the name decides the distance
resolve_local(rs, name) ==
    LET n == Len(rs.scopes)
        hits == {i \in 0..(n - 1) : ContainsKey(rs.scopes[n - i], name.lexeme)}
    IN  IF hits = {} THEN rs
        ELSE LET i == CHOOSE j \in hits : \A j2 \in hits : j <= j2
             IN  [rs EXCEPT !.locals = Insert(@, name, i)]

\* a check that never finds a variable inside its own initializer
in_own_initializer_never(rs, name) == FALSE

\* the test of Resolver::visit_variable_expr: the innermost scope holds the
\* name as declared but not yet defined
in_own_initializer(rs, name) ==
    LET n == Len(rs.scopes)
    IN  /\ n > 0
        /\ ContainsKey(rs.scopes[n], name.lexeme)
        /\ ~rs.scopes[n][name.lexeme]

RECURSIVE resolve_expr(_, _)
RECURSIVE resolve_stmt(_, _)
RECURSIVE resolve_exprs(_, _, _)
RECURSIVE resolve(_, _, _)
RECURSIVE resolve_params(_, _, _)
RECURSIVE resolve_methods(_, _, _)

\* The loops below compare the scope stack before and after one iteration.
\* The depths are always equal (every begin_scope is matched by an end_scope
\* inside the iteration); the comparison makes the evaluation of iteration i
\* complete before iteration i + 1 starts, as in the sequential code.

\* the loop over call arguments in Resolver::visit_call_expr
resolve_exprs(rs, exprs, i) ==
    IF i > Len(exprs) THEN rs
    ELSE LET next == resolve_expr(rs, exprs[i])
         IN  IF Len(next.scopes) = Len(rs.scopes)
             THEN resolve_exprs(next, exprs, i + 1) ELSE next

\* Resolver::resolve: the statements from index i on
resolve(rs, statements, i) ==
    IF i > Len(statements) THEN rs
    ELSE LET next == resolve_stmt(rs, statements[i])
         IN  IF Len(next.scopes) = Len(rs.scopes)
             THEN resolve(next, statements, i + 1) ELSE next

\* the loop over the parameters in Resolver::resolve_function
resolve_params(rs, params, i) ==
    IF i > Len(params) THEN rs
    ELSE LET next == define(declare(rs, params[i]), params[i])
         IN  IF Len(next.scopes) = Len(rs.scopes)
             THEN resolve_params(next, params, i + 1) ELSE next

\* a resolution of a function that leaves its own function type behind
resolve_function_kept(rs, function, type) ==
    LET rs1 == begin_scope([rs EXCEPT !.current_function = type])
        rs2 == resolve_params(rs1, function.params, 1)
    IN  end_scope(resolve(rs2, function.body, 1))

\* Resolver::resolve_function
resolve_function(rs, function, type) ==
    LET enclosing_function == rs.current_function
        rs1 == begin_scope([rs EXCEPT !.current_function = type])
        rs2 == resolve_params(rs1, function.params, 1)
        rs3 == end_scope(resolve(rs2, function.body, 1))
    IN  [rs3 EXCEPT !.current_function = enclosing_function]

\* the loop over the methods in Resolver::visit_class_stmt
resolve_methods(rs, methods, i) ==
    IF i > Len(methods) THEN rs
    ELSE LET decleration == IF methods[i].name.lexeme = "init"
                            THEN "Initializer" ELSE "Method"
             next == resolve_function(rs, methods[i], decleration)
         IN  IF Len(next.scopes) = Len(rs.scopes)
             THEN resolve_methods(next, methods, i + 1) ELSE next

\* impl ExprVisitor for Resolver
resolve_expr(rs, e) ==
    CASE e.t = "Variable" ->
           LET rs1 == IF in_own_initializer(rs, e.name)
                      THEN rs_throw(rs, ResolveError(e.name,
                               "Cannot read local variable in its own initializer"))
                      ELSE rs
           IN  resolve_local(rs1, e.name)
      [] e.t = "Assign" -> resolve_local(resolve_expr(rs, e.value), e.name)
      [] e.t = "Literal" -> rs
      [] e.t = "Logical" -> resolve_expr(resolve_expr(rs, e.left), e.right)
      [] e.t = "Grouping" -> resolve_expr(rs, e.expr)
      [] e.t = "Binary" -> resolve_expr(resolve_expr(rs, e.left), e.right)
      [] e.t = "Call" -> resolve_exprs(resolve_expr(rs, e.callee), e.arguments, 1)
      [] e.t = "Get" -> resolve_expr(rs, e.object)
      [] e.t = "Set" -> resolve_expr(resolve_expr(rs, e.value), e.object)
      [] e.t = "This" ->
           IF rs.current_class = "None"
           THEN rs_throw(rs, ResolveError(e.keyword, "Cannot use 'this' outside of a class"))
           ELSE resolve_local(rs, e.keyword)
      [] e.t = "Super" ->
           LET rs1 == CASE rs.current_class = "Subclass" -> rs
                        [] rs.current_class = "None" ->
                             rs_throw(rs, ResolveError(e.keyword,
                                 "Cannot use 'super' outside of a class"))
                        [] OTHER ->
                             rs_throw(rs, ResolveError(e.keyword,
                                 "Cannot use 'super' in a class with no superclass"))
           IN  resolve_local(rs1, e.keyword)

\* a resolution of a class that leaves its own class type behind
resolve_class_kept(rs, s) ==
    LET rs1 == define(declare([rs EXCEPT !.current_class = "Class"], s.name), s.name)
        rs2 == IF s.superclass.t # "None"
               THEN LET a == IF s.name.lexeme = s.superclass.name.lexeme
                             THEN rs_throw(rs1, ResolveError(s.superclass.name,
                                      "A class cannot inherit from itself"))
                             ELSE rs1
                        b == resolve_expr([a EXCEPT !.current_class = "Subclass"],
                                          s.superclass)
                        c == begin_scope(b)
                    IN  [c EXCEPT !.scopes[Len(c.scopes)] = Insert(@, "super", TRUE)]
               ELSE rs1
        rs3 == begin_scope(rs2)
        rs4 == [rs3 EXCEPT !.scopes[Len(rs3.scopes)] = Insert(@, "this", TRUE)]
        rs5 == end_scope(resolve_methods(rs4, s.methods, 1))
    IN  IF s.superclass.t # "None" THEN end_scope(rs5) ELSE rs5

\* Resolver::visit_class_stmt
resolve_class(rs, s) ==
    LET enclosing_class == rs.current_class
        rs1 == define(declare([rs EXCEPT !.current_class = "Class"], s.name), s.name)
        rs2 == IF s.superclass.t # "None"
               THEN LET a == IF s.name.lexeme = s.superclass.name.lexeme
                             THEN rs_throw(rs1, ResolveError(s.superclass.name,
                                      "A class cannot inherit from itself"))
                             ELSE rs1
                        b == resolve_expr([a EXCEPT !.current_class = "Subclass"],
                                          s.superclass)
                        c == begin_scope(b)
                    IN  [c EXCEPT !.scopes[Len(c.scopes)] = Insert(@, "super", TRUE)]
               ELSE rs1
        rs3 == begin_scope(rs2)
        rs4 == [rs3 EXCEPT !.scopes[Len(rs3.scopes)] = Insert(@, "this", TRUE)]
        rs5 == end_scope(resolve_methods(rs4, s.methods, 1))
        rs6 == IF s.superclass.t # "None" THEN end_scope(rs5) ELSE rs5
    IN  [rs6 EXCEPT !.current_class = enclosing_class]

\* impl StmtVisitor for Resolver
resolve_stmt(rs, s) ==
    CASE s.t = "Block" -> end_scope(resolve(begin_scope(rs), s.statements, 1))
      [] s.t = "Var" ->
           LET rs1 == declare(rs, s.name)
               rs2 == IF s.initializer.t # "None"
                      THEN resolve_expr(rs1, s.initializer) ELSE rs1
           IN  define(rs2, s.name)
      [] s.t = "Function" ->
           resolve_function(define(declare(rs, s.name), s.name), s, "Function")
      [] s.t = "Expression" -> resolve_expr(rs, s.expr)
      [] s.t = "If" ->
           LET rs1 == resolve_stmt(resolve_expr(rs, s.condition), s.then_branch)
           IN  IF s.else_branch.t # "None" THEN resolve_stmt(rs1, s.else_branch) ELSE rs1
      [] s.t = "Print" -> resolve_expr(rs, s.expr)
      [] s.t = "Return" ->
           LET rs1 == IF rs.current_function = "None"
                      THEN rs_throw(rs, ResolveError(s.keyword,
                               "Cannot return from top-level code"))
                      ELSE rs
           IN  IF s.value.t # "None"
               THEN IF rs1.current_function = "Initializer"
                    THEN rs_throw(rs1, ResolveError(s.keyword,
                             "Cannot return a value from an initializer"))
                    ELSE resolve_expr(rs1, s.value)
               ELSE rs1
      [] s.t = "Break" -> rs
      [] s.t = "While" -> resolve_stmt(resolve_expr(rs, s.condition), s.body)
      [] s.t = "Class" -> resolve_class(rs, s)

\* ------------------------------------------------------------------------
\* Operators and printing
\* ------------------------------------------------------------------------

\* The match in Interpreter::visit_binary_expr.  Numbers are modelled as
\* integers ("/" is integer division, used on exact quotients only).
binary_op(op, left, right) ==
    IF IsLiteral(left) /\ IsLiteral(right)
    THEN CASE left.k = "num" /\ right.k = "num" ->
                CASE op = "+"  -> [st |-> "ok", v |-> Number(left.v + right.v)]
                  [] op = "-"  -> [st |-> "ok", v |-> Number(left.v - right.v)]
                  [] op = "/" /\ right.v # 0 ->
                                  [st |-> "ok", v |-> Number(left.v \div right.v)]
                  [] op = "*"  -> [st |-> "ok", v |-> Number(left.v * right.v)]
                  [] op = "==" -> [st |-> "ok", v |-> Bool(left.v = right.v)]
                  [] op = "!=" -> [st |-> "ok", v |-> Bool(left.v # right.v)]
                  [] op = ">"  -> [st |-> "ok", v |-> Bool(left.v > right.v)]
                  [] op = "<"  -> [st |-> "ok", v |-> Bool(left.v < right.v)]
                  [] op = ">=" -> [st |-> "ok", v |-> Bool(left.v >= right.v)]
                  [] op = "<=" -> [st |-> "ok", v |-> Bool(left.v <= right.v)]
                  [] OTHER -> [st |-> "err", v |-> Null,
                               message |-> "Binary operation is not supported for number type"]
           [] left.k = "str" /\ right.k = "str" ->
                CASE op = "==" -> [st |-> "ok", v |-> Bool(left.v = right.v)]
                  [] op = "!=" -> [st |-> "ok", v |-> Bool(left.v # right.v)]
                  [] op = "+"  -> [st |-> "ok", v |-> String(left.v \o right.v)]
                  [] OTHER -> [st |-> "err", v |-> Null,
                               message |-> "Binary operation is not supported for string type"]
           [] left.k = "bool" /\ right.k = "bool" ->
                CASE op = "==" -> [st |-> "ok", v |-> Bool(left.v = right.v)]
                  [] op = "!=" -> [st |-> "ok", v |-> Bool(left.v # right.v)]
                  [] OTHER -> [st |-> "err", v |-> Null,
                               message |-> "Binary operation is not supported for boolean type"]
           [] left.k = "null" /\ right.k = "null" ->
                CASE op = "==" -> [st |-> "ok", v |-> Bool(TRUE)]
                  [] op = "!=" -> [st |-> "ok", v |-> Bool(FALSE)]
                  [] OTHER -> [st |-> "err", v |-> Null,
                               message |-> "Binary operation is not supported for null type"]
           [] OTHER -> [st |-> "err", v |-> Null,
                        message |-> "Binary operation with mismatched literal types is not supported"]
    ELSE [st |-> "err", v |-> Null,
          message |-> "Binary operation with non-literal objects is not supported"]

\* impl Display for Object / Literal / Function / NativeFunction / Class /
\* Instance: the text `print` writes.  `cs`, `is` are the class and
\* instance heaps.
Display(cs, is, v) ==
    CASE v.k = "str"  -> v.v
      [] v.k = "num"  -> ToString(v.v)
      [] v.k = "bool" -> IF v.v = 1 THEN "true" ELSE "false"
      [] v.k = "null" -> "null"
      [] v.k = "function" -> "<function " \o v.name.lexeme \o ">"
      [] v.k = "native" -> "<native function " \o v.name \o ">"
      [] v.k = "class" -> "<class " \o cs[v.id].name \o ">"
      [] v.k = "instance" -> "<instance " \o cs[is[v.id].class].name \o ">"

\* a binding that defines `this` in the closure frame of the method itself
bind_in_place(h, f, instance) ==
    [h |-> [h EXCEPT ![f.closure].variables = Insert(@, "this", instance)],
     f |-> f]

\* Function::bind: a new frame that encloses the closure and defines
\* `this`; yields the heap with that frame and the bound Function
bind(h, f, instance) ==
    LET environment0 == [NewEnvironment(f.closure) EXCEPT
                             !.variables = Insert(@, "this", instance)]
    IN  [h |-> Append(h, environment0),
         f |-> [f EXCEPT !.closure = Len(h) + 1]]

\* Statement results: Result<(), ReturnType>
Ok == [k |-> "Ok", value |-> Null]
ErrReturn(v) == [k |-> "Return", value |-> v]
ErrBreak == [k |-> "Break", value |-> Null]

\* What the machine is visiting or has just been handed back
Exec(s) == [m |-> "exec", s |-> s]
Eval(e) == [m |-> "eval", e |-> e]
Val(v) == [m |-> "val", v |-> v]
Res(r) == [m |-> "res", r |-> r]
\* Result<Object, RuntimeError> of Callable::call
CallOk(v) == [m |-> "callres", st |-> "ok", v |-> v]
CallErr(message) == [m |-> "callres", st |-> "err", v |-> Null, message |-> message]
Halt == [m |-> "halt"]

\* ------------------------------------------------------------------------
\* The programs handed to rocks::run, as the parser would build them.
\* Every token of a program has its own location.
\* ------------------------------------------------------------------------

\* Largest number of iterations the counted loops of the programs make.
MaxIter == 2
\* Longest inheritance chain the programs declare.
MaxChain == 3
\* Largest number of parameters and of call arguments.
MaxArgs == 2

Booleans == {TRUE, FALSE}
ReturnValues == {7, 8}

\* fun f() { var n = 0; while (n < K) { n = n + 1; { return V; } }
\*           print "after"; return 0; }
\* print f();
\* (`forever`: the condition is `true`; `useFor`: the loop is written
\*  for (var n = 0; n < K; n = n + 1) { { return V; } })
ReturnInLoop(useFor, forever, K, V) ==
    LET cond == IF forever THEN Lit(Bool(TRUE))
                ELSE Binary(Var("n", 3), "<", 4, Lit(Number(K)))
        incr == Assign("n", 5, Binary(Var("n", 6), "+", 7, Lit(Number(1))))
        ret == Block(<<Return(8, Lit(Number(V)))>>)
        loop == IF useFor
                THEN <<for_statement(VarS("n", 2, Lit(Number(0))), cond, incr, Block(<<ret>>))>>
                ELSE <<VarS("n", 2, Lit(Number(0))),
                       While(cond, Block(<<ExprS(incr), ret>>))>>
    IN  <<Fun("f", 1, <<>>, loop \o <<PrintS(Lit(String("after"))),
                                      Return(9, Lit(Number(0)))>>),
          PrintS(Call(Var("f", 10), 11, <<>>))>>

ErrorKinds == {"undefined", "mismatch", "noncallable", "arity", "assign"}

\* an expression statement that raises a runtime error of the given kind
Failing(kind) ==
    CASE kind = "undefined" -> ExprS(Var("nope", 20))
      [] kind = "mismatch" -> ExprS(Binary(Lit(String("x")), "+", 21, Lit(Number(1))))
      [] kind = "noncallable" -> ExprS(Call(Lit(Number(1)), 22, <<>>))
      [] kind = "arity" -> ExprS(Call(Var("clock", 23), 24, <<Lit(Number(1))>>))
      [] kind = "assign" -> ExprS(Assign("nope", 25, Lit(Number(1))))

\* var a = 0; <failing statement>; a = a + 1; print a;
\* (`inLoop`: var a = 0; while (a < K) { <failing statement>; a = a + 1; })
RuntimeErrorThenMore(kind, inLoop, K) ==
    LET incr == ExprS(Assign("a", 2, Binary(Var("a", 3), "+", 4, Lit(Number(1)))))
    IN  IF inLoop
        THEN <<VarS("a", 1, Lit(Number(0))),
               While(Binary(Var("a", 5), "<", 6, Lit(Number(K))),
                     Block(<<Failing(kind), incr>>))>>
        ELSE <<VarS("a", 1, Lit(Number(0))), Failing(kind), incr, PrintS(Var("a", 7))>>

\* var f; var g;
\* fun outer() { var x = 0; fun set(v) { x = v; } fun read() { return x; }
\*               f = set; g = read; }
\* outer(); f(V); print g();
\* (`inBlock`: the defining scope is a block instead of a function body)
SharedClosure(inBlock, V) ==
    LET body == <<VarS("x", 3, Lit(Number(0))),
                  Fun("set", 4, <<Tok("v", 5)>>, <<ExprS(Assign("x", 6, Var("v", 7)))>>),
                  Fun("read", 8, <<>>, <<Return(9, Var("x", 10))>>),
                  ExprS(Assign("f", 11, Var("set", 12))),
                  ExprS(Assign("g", 13, Var("read", 14)))>>
    IN  <<VarS("f", 1, NoExpr), VarS("g", 2, NoExpr)>>
        \o (IF inBlock THEN <<Block(body)>>
            ELSE <<Fun("outer", 15, <<>>, body), ExprS(Call(Var("outer", 16), 17, <<>>))>>)
        \o <<ExprS(Call(Var("f", 18), 19, <<Lit(Number(V))>>)),
             PrintS(Call(Var("g", 20), 21, <<>>))>>

\* var a = "outer";
\* { fun foo() { print a; a = "assigned"; }   (the assignment when `doAssign`)
\*   foo(); var a = "inner"; foo(); print a; }
\* print a;
\* (`wrap`: the whole program is inside one more block, so that the outer
\*  `a` is a local)
EarlyBound(wrap, doAssign) ==
    LET foo == Fun("foo", 2, <<>>,
                   <<PrintS(Var("a", 3))>>
                   \o (IF doAssign
                       THEN <<ExprS(Assign("a", 4, Lit(String("assigned"))))>>
                       ELSE <<>>))
        stmts == <<VarS("a", 1, Lit(String("outer"))),
                   Block(<<foo,
                           ExprS(Call(Var("foo", 5), 6, <<>>)),
                           VarS("a", 7, Lit(String("inner"))),
                           ExprS(Call(Var("foo", 8), 9, <<>>)),
                           PrintS(Var("a", 10))>>),
                   PrintS(Var("a", 11))>>
    IN  IF wrap THEN <<Block(stmts)>> ELSE stmts

BreakPlaces == {"top", "function", "method", "initializer", "block"}

\* a `break` that no loop encloses: at top level, directly in a function,
\* method or initializer body, or in a block of a function body
BreakOutsideLoop(place) ==
    CASE place = "top" -> <<Break, PrintS(Lit(String("after")))>>
      [] place = "function" ->
           <<Fun("f", 1, <<>>, <<Break>>), ExprS(Call(Var("f", 2), 3, <<>>))>>
      [] place = "block" ->
           <<Fun("f", 1, <<>>, <<Block(<<Break>>)>>), ExprS(Call(Var("f", 2), 3, <<>>))>>
      [] place = "method" ->
           <<Class("K", 1, NoExpr, <<Fun("m", 2, <<>>, <<Break>>)>>),
             ExprS(Call(Get(Call(Var("K", 3), 4, <<>>), "m", 5), 6, <<>>))>>
      [] place = "initializer" ->
           <<Class("K", 1, NoExpr, <<Fun("init", 2, <<>>, <<Break>>)>>),
             ExprS(Call(Var("K", 3), 4, <<>>))>>

CallKinds == {"function", "method", "class", "inherited", "noinit", "native"}

\* the parameter tokens p1 .. pn
Params(n) == [i \in 1..n |-> Tok("p" \o ToString(i), 30 + i)]
\* the argument expressions 1 .. n
Args(n) == [i \in 1..n |-> Lit(Number(i))]

\* var ran = false; <declaration of a callee with np parameters whose body
\* is `ran = true;`>  <a call of it with na arguments>
\*   function:  fun f(..) {..}                      f(..)
\*   method:    class K { m(..) {..} }              K().m(..)
\*   class:     class K { init(..) {..} }           K(..)
\*   inherited: class K { init(..) {..} } class S < K {}    S(..)
\*   noinit:    class K {}                          K(..)
\*   native:                                        clock(..)
ArityCall(kind, np, na) ==
    LET body == <<ExprS(Assign("ran", 2, Lit(Bool(TRUE))))>>
        decl == CASE kind = "function" -> <<Fun("f", 3, Params(np), body)>>
                  [] kind = "method" ->
                       <<Class("K", 3, NoExpr, <<Fun("m", 4, Params(np), body)>>)>>
                  [] kind = "class" ->
                       <<Class("K", 3, NoExpr, <<Fun("init", 4, Params(np), body)>>)>>
                  [] kind = "inherited" ->
                       <<Class("K", 3, NoExpr, <<Fun("init", 4, Params(np), body)>>),
                         Class("S", 5, Var("K", 6), <<>>)>>
                  [] kind = "noinit" -> <<Class("K", 3, NoExpr, <<>>)>>
                  [] kind = "native" -> <<>>
        callee == CASE kind = "function" -> Var("f", 7)
                    [] kind = "method" -> Get(Call(Var("K", 7), 8, <<>>), "m", 9)
                    [] kind = "class" -> Var("K", 7)
                    [] kind = "inherited" -> Var("S", 7)
                    [] kind = "noinit" -> Var("K", 7)
                    [] kind = "native" -> Var("clock", 7)
    IN  <<VarS("ran", 1, Lit(Bool(FALSE)))>> \o decl
        \o <<VarS("result", 10, Call(callee, 11, Args(na)))>>

\* class A { m() { print "A"; print this.tag; } }
\* class B < A { m() { print "B"; print this.tag; }   (when `bOverrides`)
\*               test() { super.m(); } }               (when testIn = "B")
\* class C < B { m() { print "C"; }
\*               test() { super.m(); } }               (when testIn = "C")
\* var c = C(); c.tag = "c"; c.test();
SuperChain(testIn, bOverrides) ==
    LET m(name, l) == Fun("m", l, <<>>, <<PrintS(Lit(String(name))),
                                          PrintS(Get(This(l + 1), "tag", l + 2))>>)
        test(l) == Fun("test", l, <<>>, <<ExprS(Call(Super(l + 1, "m", l + 2), l + 3, <<>>))>>)
    IN  <<Class("A", 1, NoExpr, <<m("A", 2)>>),
          Class("B", 5, Var("A", 6),
                (IF bOverrides THEN <<m("B", 7)>> ELSE <<>>)
                \o (IF testIn = "B" THEN <<test(10)>> ELSE <<>>)),
          Class("C", 14, Var("B", 15),
                <<Fun("m", 16, <<>>, <<PrintS(Lit(String("C")))>>)>>
                \o (IF testIn = "C" THEN <<test(17)>> ELSE <<>>)),
          VarS("c", 21, Call(Var("C", 22), 23, <<>>)),
          ExprS(Set(Var("c", 24), "tag", 25, Lit(String("c")))),
          ExprS(Call(Get(Var("c", 26), "test", 27), 28, <<>>))>>

\* class K1 {..}  class K2 < K1 {..}  ...  class Kn < Kn-1 {..}
\* where Ki declares `m() { return i; }` exactly when i is in `decl`, and
\* every class declares `own() { return 0; }`;  then  print Kn().m();
MethodChain(n, decl) ==
    LET name(i) == "K" \o ToString(i)
        class(i) == Class(name(i), 10 * i, IF i = 1 THEN NoExpr ELSE Var(name(i - 1), 10 * i + 1),
                          (IF i \in decl
                           THEN <<Fun("m", 10 * i + 2, <<>>, <<Return(10 * i + 3, Lit(Number(i)))>>)>>
                           ELSE <<>>)
                          \o <<Fun("own", 10 * i + 4, <<>>, <<Return(10 * i + 5, Lit(Number(0)))>>)>>)
    IN  [i \in 1..n |-> class(i)]
        \o <<PrintS(Call(Get(Call(Var(name(n), 1), 2, <<>>), "m", 3), 4, <<>>))>>

\* var a = "global"; class Base {}
\* { var a = "block";
\*   fun f(stop) { var a = "f"; if (stop and true) { return 1; }
\*                 { var a = "inner"; } return 2; }
\*   f(stop);
\*   while (true) { { break; } }
\*   class K < Base { init() { { return; } } }
\*   K();
\*   print a; }
\* print a;
Unwinding(stop) ==
    <<VarS("a", 1, Lit(String("global"))),
      Class("Base", 2, NoExpr, <<>>),
      Block(<<VarS("a", 3, Lit(String("block"))),
              Fun("f", 4, <<Tok("stop", 5)>>,
                  <<VarS("a", 6, Lit(String("f"))),
                    If(Logical(Var("stop", 7), "and", Lit(Bool(TRUE))),
                       Block(<<Return(8, Lit(Number(1)))>>), NoStmt),
                    Block(<<VarS("a", 9, Lit(String("inner")))>>),
                    Return(10, Lit(Number(2)))>>),
              ExprS(Call(Var("f", 11), 12, <<Lit(Bool(stop))>>)),
              While(Lit(Bool(TRUE)), Block(<<Block(<<Break>>)>>)),
              Class("K", 13, Var("Base", 14),
                    <<Fun("init", 15, <<>>, <<Block(<<Return(16, NoExpr)>>)>>)>>),
              ExprS(Call(Var("K", 17), 18, <<>>)),
              PrintS(Var("a", 19))>>),
      PrintS(Var("a", 20))>>

\* var n = 0;
\* class P { init(a, b) { n = n + 1; this.a = a; this.b = b; return; } }
\*                                        (the `return;` when `early`)
\* class Q < P {}                         (when `inherited`)
\* var x = Q(1, 2); var y = Q(3, 4);      (P instead of Q when not inherited)
\* print n; print x.a; print x.b; print y.a; print y.b; print x;
Construct(inherited, early) ==
    LET init == Fun("init", 3, <<Tok("a", 4), Tok("b", 5)>>,
                    <<ExprS(Assign("n", 6, Binary(Var("n", 7), "+", 8, Lit(Number(1))))),
                      ExprS(Set(This(9), "a", 10, Var("a", 11))),
                      ExprS(Set(This(12), "b", 13, Var("b", 14)))>>
                    \o (IF early THEN <<Return(15, NoExpr)>> ELSE <<>>))
        c == IF inherited THEN "Q" ELSE "P"
    IN  <<VarS("n", 1, Lit(Number(0))), Class("P", 2, NoExpr, <<init>>)>>
        \o (IF inherited THEN <<Class("Q", 16, Var("P", 17), <<>>)>> ELSE <<>>)
        \o <<VarS("x", 18, Call(Var(c, 19), 20, <<Lit(Number(1)), Lit(Number(2))>>)),
             VarS("y", 21, Call(Var(c, 22), 23, <<Lit(Number(3)), Lit(Number(4))>>)),
             PrintS(Var("n", 24)),
             PrintS(Get(Var("x", 25), "a", 26)), PrintS(Get(Var("x", 27), "b", 28)),
             PrintS(Get(Var("y", 29), "a", 30)), PrintS(Get(Var("y", 31), "b", 32)),
             PrintS(Var("x", 33))>>

\* class K { init(v) { this.v = v; return; } }     (the `return;` when `early`)
\* var o = K(1); var p = o.init(2);
\* print p.v; print o.v; print p;
InitAgain(early) ==
    <<Class("K", 1, NoExpr,
            <<Fun("init", 2, <<Tok("v", 3)>>,
                  <<ExprS(Set(This(4), "v", 5, Var("v", 6)))>>
                  \o (IF early THEN <<Return(7, NoExpr)>> ELSE <<>>))>>),
      VarS("o", 8, Call(Var("K", 9), 10, <<Lit(Number(1))>>)),
      VarS("p", 11, Call(Get(Var("o", 12), "init", 13), 14, <<Lit(Number(2))>>)),
      PrintS(Get(Var("p", 15), "v", 16)),
      PrintS(Get(Var("o", 17), "v", 18)),
      PrintS(Var("p", 19))>>

\* class A { m() { return this.f; } }
\* class B < A {}                          (when `inherited`)
\* var b1 = B(); var b2 = B();             (A instead of B when not inherited)
\* b1.f = "one"; b2.f = "two";
\* print b1.m(); b1.m = "shadow"; print b1.m; print b2.m(); print b2.nope;
Properties(inherited) ==
    LET c == IF inherited THEN "B" ELSE "A"
    IN  <<Class("A", 1, NoExpr,
                <<Fun("m", 2, <<>>, <<Return(3, Get(This(4), "f", 5))>>)>>)>>
        \o (IF inherited THEN <<Class("B", 6, Var("A", 7), <<>>)>> ELSE <<>>)
        \o <<VarS("b1", 8, Call(Var(c, 9), 10, <<>>)),
             VarS("b2", 11, Call(Var(c, 12), 13, <<>>)),
             ExprS(Set(Var("b1", 14), "f", 15, Lit(String("one")))),
             ExprS(Set(Var("b2", 16), "f", 17, Lit(String("two")))),
             PrintS(Call(Get(Var("b1", 18), "m", 19), 20, <<>>)),
             ExprS(Set(Var("b1", 21), "m", 22, Lit(String("shadow")))),
             PrintS(Get(Var("b1", 23), "m", 24)),
             PrintS(Call(Get(Var("b2", 25), "m", 26), 27, <<>>)),
             PrintS(Get(Var("b2", 28), "nope", 29))>>

\* class A < A {}  print "ran";
SelfInherit ==
    <<Class("A", 1, Var("A", 2), <<>>), PrintS(Lit(String("ran")))>>

RedeclarePlaces == {"block", "parameter", "parameters", "nested", "global"}

\* block:      { var a = 1; var a = 2; print a; }
\* parameter:  fun f(a) { var a = 2; }  print "ran";
\* parameters: fun f(a, a) {}  print "ran";
\* nested:     { var a = 1; { var a = 2; print a; } print a; }
\* global:     var a = 1; var a = 2; print a;
Redeclare(place) ==
    CASE place = "block" ->
           <<Block(<<VarS("a", 1, Lit(Number(1))), VarS("a", 2, Lit(Number(2))),
                     PrintS(Var("a", 3))>>)>>
      [] place = "parameter" ->
           <<Fun("f", 4, <<Tok("a", 1)>>, <<VarS("a", 2, Lit(Number(2)))>>),
             PrintS(Lit(String("ran")))>>
      [] place = "parameters" ->
           <<Fun("f", 4, <<Tok("a", 1), Tok("a", 2)>>, <<>>),
             PrintS(Lit(String("ran")))>>
      [] place = "nested" ->
           <<Block(<<VarS("a", 1, Lit(Number(1))),
                     Block(<<VarS("a", 2, Lit(Number(2))), PrintS(Var("a", 3))>>),
                     PrintS(Var("a", 5))>>)>>
      [] place = "global" ->
           <<VarS("a", 1, Lit(Number(1))), VarS("a", 2, Lit(Number(2))),
             PrintS(Var("a", 3))>>

OwnInitializerPlaces == {"local", "shadow", "global"}

\* local:   { var a = a; }  print "ran";
\* shadow:  var a = "outer"; { var a = a; }  print "ran";
\* global:  var a = "value"; var a = a; print a;
OwnInitializer(place) ==
    CASE place = "local" ->
           <<Block(<<VarS("a", 1, Var("a", 2))>>), PrintS(Lit(String("ran")))>>
      [] place = "shadow" ->
           <<VarS("a", 3, Lit(String("outer"))),
             Block(<<VarS("a", 1, Var("a", 2))>>), PrintS(Lit(String("ran")))>>
      [] place = "global" ->
           <<VarS("a", 3, Lit(String("value"))), VarS("a", 1, Var("a", 2)),
             PrintS(Var("a", 4))>>

ReturnPlaces ==
    {"top", "top_value", "function", "method", "init_value", "init_bare",
     "in_init", "after_in_init", "after_function", "after_class", "fun_init"}

Ran == PrintS(Lit(String("ran")))

\* top:            return;
\* top_value:      return 1;
\* function:       fun f() { return 1; }
\* method:         class K { m() { return 1; } }
\* init_value:     class K { init() { return 1; } }
\* init_bare:      class K { init() { return; } }
\* in_init:        class K { init() { fun g() { return 1; } } }
\* after_in_init:  class K { init() { fun g() { return; } return 1; } }
\* after_function: fun f() { return 1; }  return;
\* after_class:    class K { init() { return; } }  return;
\* fun_init:       fun init() { return 1; }
\* each followed by  print "ran";
ReturnProgram(place) ==
    LET one == Lit(Number(1))
        K(body) == Class("K", 10, NoExpr, <<Fun("init", 11, <<>>, body)>>)
    IN  (CASE place = "top" -> <<Return(1, NoExpr)>>
           [] place = "top_value" -> <<Return(1, one)>>
           [] place = "function" -> <<Fun("f", 12, <<>>, <<Return(1, one)>>)>>
           [] place = "method" ->
                <<Class("K", 10, NoExpr, <<Fun("m", 11, <<>>, <<Return(1, one)>>)>>)>>
           [] place = "init_value" -> <<K(<<Return(1, one)>>)>>
           [] place = "init_bare" -> <<K(<<Return(1, NoExpr)>>)>>
           [] place = "in_init" -> <<K(<<Fun("g", 12, <<>>, <<Return(1, one)>>)>>)>>
           [] place = "after_in_init" ->
                <<K(<<Fun("g", 12, <<>>, <<Return(2, NoExpr)>>), Return(1, one)>>)>>
           [] place = "after_function" ->
                <<Fun("f", 12, <<>>, <<Return(2, one)>>), Return(1, NoExpr)>>
           [] place = "after_class" -> <<K(<<Return(2, NoExpr)>>), Return(1, NoExpr)>>
           [] place = "fun_init" -> <<Fun("init", 12, <<>>, <<Return(1, one)>>)>>)
        \o <<Ran>>

ThisPlaces ==
    {"this_top", "this_function", "this_method", "this_in_function_in_method",
     "this_after_class", "this_after_nested"}

SuperPlaces ==
    {"super_top", "super_function", "super_after_subclass", "super_in_class",
     "super_in_subclass", "super_in_nested", "super_after_nested",
     "super_after_nested_subclass"}

\* this_top:                    this;
\* this_function:               fun f() { this; }
\* this_method:                 class K { m() { this; } }
\* this_in_function_in_method:  class K { m() { fun g() { this; } } }
\* this_after_class:            class K { m() { this; } }  this;
\* this_after_nested:           class K { m() { class In {}  this; } }
\* super_top:                   super.m;
\* super_function:              fun f() { super.m; }
\* super_after_subclass:        class A {}  class B < A {}  super.m;
\* super_in_class:              class K { m() { super.m; } }
\* super_in_subclass:           class A {}  class B < A { m() { super.m; } }
\* super_in_nested:             class A {}  class B < A { m() { class In { n() { super.m; } } } }
\* super_after_nested:          class A {}  class B < A { m() { class In {}  super.m; } }
\* super_after_nested_subclass: class A {}  class K { m() { class In < A {}  super.m; } }
\* each followed by  print "ran";  the `this` or `super` in question is at
\* position 1
ClassContext(place) ==
    LET this == ExprS(This(1))
        super == ExprS(Super(1, "m", 2))
        A == Class("A", 10, NoExpr, <<>>)
        In == Class("In", 11, NoExpr, <<>>)
        M(name, loc, sup, body) == Class(name, loc, sup, <<Fun("m", 12, <<>>, body)>>)
    IN  (CASE place = "this_top" -> <<this>>
           [] place = "this_function" -> <<Fun("f", 13, <<>>, <<this>>)>>
           [] place = "this_method" -> <<M("K", 14, NoExpr, <<this>>)>>
           [] place = "this_in_function_in_method" ->
                <<M("K", 14, NoExpr, <<Fun("g", 13, <<>>, <<this>>)>>)>>
           [] place = "this_after_class" ->
                <<M("K", 14, NoExpr, <<ExprS(This(3))>>), this>>
           [] place = "this_after_nested" -> <<M("K", 14, NoExpr, <<In, this>>)>>
           [] place = "super_top" -> <<super>>
           [] place = "super_function" -> <<Fun("f", 13, <<>>, <<super>>)>>
           [] place = "super_after_subclass" ->
                <<A, Class("B", 15, Var("A", 16), <<>>), super>>
           [] place = "super_in_class" -> <<M("K", 14, NoExpr, <<super>>)>>
           [] place = "super_in_subclass" -> <<A, M("B", 15, Var("A", 16), <<super>>)>>
           [] place = "super_in_nested" ->
                <<A, M("B", 15, Var("A", 16),
                       <<Class("In", 11, NoExpr, <<Fun("n", 17, <<>>, <<super>>)>>)>>)>>
           [] place = "super_after_nested" ->
                <<A, M("B", 15, Var("A", 16), <<In, super>>)>>
           [] place = "super_after_nested_subclass" ->
                <<A, M("K", 14, NoExpr, <<Class("In", 11, Var("A", 16), <<>>), super>>)>>)
        \o <<Ran>>

\* the operands of the logical operators: every kind of literal, falsy
\* and truthy
LeftOperands ==
    {Null, Bool(FALSE), Bool(TRUE), Number(0), Number(1), String(""), String("s")}
RightOperands == {Number(0), String("b")}

\* var x = "unset";  print a and (x = b);  print x;      (or: `or`)
LogicalProgram(op, a, b) ==
    <<VarS("x", 1, Lit(String("unset"))),
      PrintS(Logical(Lit(a), op, Grouping(Assign("x", 2, Lit(b))))),
      PrintS(Var("x", 3))>>

ObjectKinds == {"class", "instance", "function"}

\* class:     class A {}  class B {}       print A == A;   (or A == B)
\* instance:  class A {}  var a = A();  var b = A();  print a == a;   (or a == b)
\* function:  fun a() {}  fun b() {}       print a == a;   (or a == b)
\* with `!=` in place of `==` when op = "!="
EqualsProgram(kind, same, op) ==
    LET decl == CASE kind = "class" ->
                       <<Class("a", 1, NoExpr, <<>>), Class("b", 2, NoExpr, <<>>)>>
                  [] kind = "instance" ->
                       <<Class("A", 1, NoExpr, <<>>),
                         VarS("a", 2, Call(Var("A", 3), 4, <<>>)),
                         VarS("b", 5, Call(Var("A", 6), 7, <<>>))>>
                  [] kind = "function" ->
                       <<Fun("a", 1, <<>>, <<>>), Fun("b", 2, <<>>, <<>>)>>
    IN  decl \o <<PrintS(Binary(Var("a", 8), op, 9,
                                Var(IF same THEN "a" ELSE "b", 10)))>>

\* The sessions of the prompt: each a sequence of lines, each line a
\* sequence of statements.  Every line starts at line 1 of its own source,
\* so tokens of different lines can have the same location.

FirstLines == {"fine", "resolve", "runtime"}

\* fine:     var one = 1;
\* resolve:  return;
\* runtime:  nope;
\* followed by the line  var two = 2;
ErrorThenFine(first) ==
    <<CASE first = "fine" -> <<VarS("one", 1, Lit(Number(1)))>>
        [] first = "resolve" -> <<Return(1, NoExpr)>>
        [] first = "runtime" -> <<ExprS(Var("nope", 1))>>,
      <<VarS("two", 2, Lit(Number(2)))>>>>

\* a block nested `depth` deep around the statements
RECURSIVE Nested(_, _)
Nested(depth, stmts) ==
    IF depth = 0 THEN stmts ELSE <<Block(Nested(depth - 1, stmts))>>

\* line 1:  { var a = "local"; a; }            (the read `depth` blocks deeper)
\* line 2:  var a = "global";  print a;        (the print in a block when inBlock)
\* the `a` read by line 1 and the `a` printed by line 2 are at the same column
StaleLocal(depth, inBlock) ==
    <<<<Block(<<VarS("a", 1, Lit(String("local")))>>
              \o Nested(depth, <<ExprS(Var("a", 2))>>))>>,
      <<VarS("a", 1, Lit(String("global")))>>
          \o Nested(IF inBlock THEN 1 ELSE 0, <<PrintS(Var("a", 2))>>)>>

Sessions ==
    {ErrorThenFine(first) : first \in FirstLines}
    \cup {StaleLocal(depth, inBlock) : depth \in 0..1, inBlock \in Booleans}

\* asValue:    fun f() { return g; }    var g = "first";
\*             print f();  g = "second";  print f();
\* otherwise:  fun f() { return g(); }  fun g() { return "first"; }
\*             print f();  fun g() { return "second"; }  print f();
\* fromBlock:  the first call is  { var g = "local"; print f(); }
LateGlobal(asValue, fromBlock) ==
    LET G(loc, text) == IF asValue THEN VarS("g", loc, Lit(String(text)))
                        ELSE Fun("g", loc, <<>>, <<Return(loc + 1, Lit(String(text)))>>)
        call(loc) == PrintS(Call(Var("f", loc), loc + 1, <<>>))
    IN  <<Fun("f", 1, <<>>,
              <<Return(2, IF asValue THEN Var("g", 3) ELSE Call(Var("g", 3), 4, <<>>))>>),
          G(5, "first"),
          IF fromBlock
          THEN Block(<<VarS("g", 7, Lit(String("local"))), call(8)>>)
          ELSE call(8),
          IF asValue THEN ExprS(Assign("g", 10, Lit(String("second")))) ELSE G(10, "second"),
          call(12)>>

\* the loop of BreakInLoop, as a while or as a for statement:
\*   while ((c = c + 1) < 4) { print i; if (i == 1) break; print "after"; i = i + 1; }
\*   for (; (c = c + 1) < 4; i = i + 1) { print i; if (i == 1) break; print "after"; }
\* c counts the evaluations of the condition, i the increments
CountedLoop(useFor) ==
    LET condition == Binary(Grouping(Assign("c", 20,
                                Binary(Var("c", 21), "+", 22, Lit(Number(1))))),
                            "<", 23, Lit(Number(4)))
        increment == Assign("i", 24, Binary(Var("i", 25), "+", 26, Lit(Number(1))))
        body == <<PrintS(Var("i", 27)),
                  If(Binary(Var("i", 28), "==", 29, Lit(Number(1))), Break, NoStmt),
                  PrintS(Lit(String("after")))>>
    IN  IF useFor
        THEN for_statement(NoStmt, condition, increment, Block(body))
        ELSE While(condition, Block(body \o <<ExprS(increment)>>))

\* var c = 0;  var i = 0;  <loop>  print c;  print i;  print "next";
\* nested: the loop and the prints are the body of an outer loop that runs
\* twice and sets c and i to 0 at the start of each iteration:
\*   var j = 0;
\*   while (j < 2) { c = 0; i = 0; <loop> print c; print i; j = j + 1; }
\*   print "next";
BreakInLoop(useFor, nested) ==
    LET tail == <<PrintS(Var("c", 30)), PrintS(Var("i", 31))>>
        zero(name, loc) == ExprS(Assign(name, loc, Lit(Number(0))))
    IN  <<VarS("c", 1, Lit(Number(0))), VarS("i", 2, Lit(Number(0)))>>
        \o (IF nested
            THEN <<VarS("j", 3, Lit(Number(0))),
                   While(Binary(Var("j", 4), "<", 5, Lit(Number(2))),
                         Block(<<zero("c", 6), zero("i", 7), CountedLoop(useFor)>>
                               \o tail
                               \o <<ExprS(Assign("j", 8,
                                      Binary(Var("j", 9), "+", 10, Lit(Number(1)))))>>))>>
            ELSE <<CountedLoop(useFor)>> \o tail)
        \o <<PrintS(Lit(String("next")))>>

\* class A { who() { return this.name; } }
\* var a = A();  a.name = "a";   var b = A();  b.name = "b";
\* var m = a.who;  var k = b.who;
\* print m();  b.other = a.who;  print b.other();  print k();  print m();
BoundMethod ==
    <<Class("A", 1, NoExpr,
            <<Fun("who", 2, <<>>, <<Return(3, Get(This(4), "name", 5))>>)>>),
      VarS("a", 6, Call(Var("A", 7), 8, <<>>)),
      ExprS(Set(Var("a", 9), "name", 10, Lit(String("a")))),
      VarS("b", 11, Call(Var("A", 12), 13, <<>>)),
      ExprS(Set(Var("b", 14), "name", 15, Lit(String("b")))),
      VarS("m", 16, Get(Var("a", 17), "who", 18)),
      VarS("k", 19, Get(Var("b", 20), "who", 21)),
      PrintS(Call(Var("m", 22), 23, <<>>)),
      ExprS(Set(Var("b", 24), "other", 25, Get(Var("a", 26), "who", 27))),
      PrintS(Call(Get(Var("b", 28), "other", 29), 30, <<>>)),
      PrintS(Call(Var("k", 31), 32, <<>>)),
      PrintS(Call(Var("m", 33), 34, <<>>))>>

NotClasses == {"function", "null", "number"}

\* function:  fun NotClass() {}     class Foo < NotClass {}
\* null:      var NotClass = null;  class Foo < NotClass {}
\* number:    var NotClass = 123;   class Foo < NotClass {}
BadSuperclass(kind) ==
    <<CASE kind = "function" -> Fun("NotClass", 1, <<>>, <<>>)
        [] kind = "null" -> VarS("NotClass", 1, Lit(Null))
        [] kind = "number" -> VarS("NotClass", 1, Lit(Number(123))),
      Class("Foo", 2, Var("NotClass", 3), <<>>)>>

\* var f1;  var f2;
\* for (var i = 1; i < 3; i = i + 1) {
\*   var j = i;  fun f() { print i; print j; }
\*   if (i == 1) f1 = f; else f2 = f;
\* }
\* f1();  f2();
\* or, with a while loop:  var i = 1;  while (i < 3) { ...  i = i + 1; }
LoopClosure(useFor) ==
    LET init == VarS("i", 3, Lit(Number(1)))
        condition == Binary(Var("i", 4), "<", 5, Lit(Number(3)))
        increment == Assign("i", 6, Binary(Var("i", 7), "+", 8, Lit(Number(1))))
        body == <<VarS("j", 9, Var("i", 10)),
                  Fun("f", 11, <<>>, <<PrintS(Var("i", 12)), PrintS(Var("j", 13))>>),
                  If(Binary(Var("i", 14), "==", 15, Lit(Number(1))),
                     ExprS(Assign("f1", 16, Var("f", 17))),
                     ExprS(Assign("f2", 18, Var("f", 19))))>>
    IN  <<VarS("f1", 1, NoExpr), VarS("f2", 2, NoExpr)>>
        \o (IF useFor
            THEN <<for_statement(init, condition, increment, Block(body))>>
            ELSE <<init, While(condition, Block(body \o <<ExprS(increment)>>))>>)
        \o <<ExprS(Call(Var("f1", 20), 21, <<>>)), ExprS(Call(Var("f2", 22), 23, <<>>))>>

Programs ==
    {ArityCall(kind, np, na) : kind \in CallKinds, np \in 0..MaxArgs, na \in 0..MaxArgs}
    \cup {SuperChain(t, o) : t \in {"B", "C"}, o \in Booleans}
    \cup UNION {{MethodChain(n, decl) : decl \in SUBSET (1..n)} : n \in 1..MaxChain}
    \cup {Unwinding(stop) : stop \in Booleans}
    \cup {ReturnInLoop(u, f, K, V) : u \in Booleans, f \in Booleans,
                                K \in 1..MaxIter, V \in ReturnValues}
    \cup {RuntimeErrorThenMore(kind, l, K) :
              kind \in ErrorKinds, l \in Booleans, K \in 1..MaxIter}
    \cup {SharedClosure(b, V) : b \in Booleans, V \in ReturnValues}
    \cup {EarlyBound(w, d) : w \in Booleans, d \in Booleans}
    \cup {BreakOutsideLoop(place) : place \in BreakPlaces}
    \cup {Construct(i, e) : i \in Booleans, e \in Booleans}
    \cup {InitAgain(e) : e \in Booleans}
    \cup {Properties(i) : i \in Booleans}
    \cup {SelfInherit}
    \cup {Redeclare(place) : place \in RedeclarePlaces}
    \cup {OwnInitializer(place) : place \in OwnInitializerPlaces}
    \cup {ReturnProgram(place) : place \in ReturnPlaces}
    \cup {ClassContext(place) : place \in ThisPlaces \cup SuperPlaces}
    \cup {LogicalProgram(op, a, b) : op \in {"and", "or"}, a \in LeftOperands, b \in RightOperands}
    \cup {EqualsProgram(kind, same, op) : kind \in ObjectKinds, same \in Booleans, op \in {"==", "!="}}
    \cup {LateGlobal(v, b) : v \in Booleans, b \in Booleans}
    \cup {BreakInLoop(f, n) : f \in Booleans, n \in Booleans}
    \cup {BoundMethod}
    \cup {BadSuperclass(kind) : kind \in NotClasses}
    \cup {LoopClosure(f) : f \in Booleans}

\* ------------------------------------------------------------------------
\* State
\* ------------------------------------------------------------------------

VARIABLES
    program,            \* the parsed statements handed to rocks::run
    phase,              \* "prompt" (run_prompt about to read a line), "start",
                        \* "interpret", "done", or "panic" (process aborted)
    locals,             \* Interpreter::locals, the resolution table
    envs,               \* heap of Environment frames (Rc<RefCell<Environment>>)
    environment,        \* Interpreter::environment
    classes,            \* heap of Rc<RefCell<Class>>
    instances,          \* heap of Rc<RefCell<Instance>>
    ctl,                \* the node being visited / the result being returned
    kont,               \* the Rust call stack, innermost activation first
    errors,             \* the errors printed by `throw`, in order
    had_error,          \* error.rs HAD_ERROR
    had_runtime_error,  \* error.rs HAD_RUNTIME_ERROR
    output,             \* the lines written to Interpreter::writer
    mode,               \* "file" (rocks::run_file) or "prompt" (rocks::run_prompt)
    lines,              \* prompt mode: the lines not read yet, each one parsed
    HAD_ERROR,          \* lib.rs HAD_ERROR, a static of its own
    HAD_RUNTIME_ERROR,  \* lib.rs HAD_RUNTIME_ERROR, a static of its own
    status              \* <<>> while the process runs, then <<its exit status>>

\* the state of main and of `rocks` outside the interpreter
session == <<mode, lines, HAD_ERROR, HAD_RUNTIME_ERROR, status>>

vars == <<program, phase, locals, envs, environment, classes, instances,
          ctl, kont, errors, had_error, had_runtime_error, output,
          mode, lines, HAD_ERROR, HAD_RUNTIME_ERROR, status>>

\* Interpreter::globals: the root frame
globals == 1

\* a test that never sees an error
did_error_never == FALSE

\* error::did_error
did_error == had_error \/ had_runtime_error

\* Interpreter::new: the globals frame holds the native functions
InterpreterNew ==
    /\ envs = <<[NewEnvironment(0) EXCEPT
                   !.variables = Insert(Insert(@, "clock", NativeObj("clock")),
                                        "input", NativeObj("input"))]>>
    /\ environment = globals
    /\ locals = EmptyMap
    /\ classes = <<>>
    /\ instances = <<>>
    /\ output = <<>>

\* main: with a script, run_file has read and handed the file to run; with
\* no argument, run_prompt is about to read the first line
Init ==
    /\ \/ mode = "file" /\ program \in Programs /\ lines = <<>> /\ phase = "start"
       \/ mode = "prompt" /\ program = <<>> /\ lines \in Sessions /\ phase = "prompt"
    /\ HAD_ERROR = FALSE
    /\ HAD_RUNTIME_ERROR = FALSE
    /\ status = <<>>
    /\ InterpreterNew
    /\ ctl = Halt
    /\ kont = <<>>
    /\ errors = <<>>
    /\ had_error = FALSE
    /\ had_runtime_error = FALSE

Top == kont[1]
Push(frame) == <<frame>> \o kont
Pop == Tail(kont)
Replace(frame) == <<frame>> \o Tail(kont)

Visiting(t) == phase = "interpret" /\ ctl.m = "exec" /\ ctl.s.t = t
Evaluating(t) == phase = "interpret" /\ ctl.m = "eval" /\ ctl.e.t = t
\* the sub-evaluation started by the handler activation `k` has returned
Returned(m, k) == phase = "interpret" /\ ctl.m = m /\ kont # <<>> /\ Top.k = k

\* RuntimeError::throw
throw(err) ==
    /\ errors' = Append(errors, err)
    /\ had_runtime_error' = TRUE
no_throw == UNCHANGED <<errors, had_runtime_error>>

\* a panic (`unreachable!`, `todo!`, `expect`, `unwrap`) aborts the process
panic ==
    /\ phase' = "panic"
    /\ ctl' = Halt
    /\ UNCHANGED kont

\* ------------------------------------------------------------------------
\* rocks::run and Interpreter::interpret
\* ------------------------------------------------------------------------

\* what scanning and parsing the source may end with: no error, an error
\* of the scanner, or an error of the parser (which still hands back the
\* statements it could parse)
FrontEnd == {"ok", "scan", "parse"}

\* rocks::run: scan, parse, resolve and interpret, each pass only when no
\* error has been reported so far
run ==
    /\ phase = "start"
    /\ UNCHANGED <<program, envs, environment, classes, instances, kont,
                   had_runtime_error, output>>
    /\ \E front \in FrontEnd :
          LET \* the return after the scanner: it reported an error, or a
              \* flag of error.rs was set before this run
              scanned == front = "scan" \/ did_error
              rs == IF ~scanned /\ front = "ok"
                    THEN resolve(NewResolver(locals), program, 1)
                    ELSE NewResolver(locals)
              thrown == CASE front = "scan" -> <<FrontError("scan")>>
                          [] front # "scan" /\ scanned -> <<>>
                          [] front = "parse" /\ ~scanned -> <<FrontError("parse")>>
                          [] OTHER -> rs.errors
          IN  /\ locals' = rs.locals
              /\ errors' = errors \o thrown
              /\ had_error' = (had_error \/ thrown # <<>>)
              /\ IF did_error'
                 THEN phase' = "done" /\ ctl' = Halt
                 ELSE phase' = "interpret" /\ ctl' = [m |-> "interpret"]
    /\ UNCHANGED session

\* Interpreter::interpret: execute every statement, dropping its result
interpret ==
    /\ phase = "interpret"
    /\ \/ /\ ctl.m = "interpret"
          /\ IF program = <<>>
             THEN phase' = "done" /\ ctl' = Halt /\ UNCHANGED kont
             ELSE /\ kont' = <<[k |-> "interpret", idx |-> 1]>>
                  /\ ctl' = Exec(program[1])
                  /\ UNCHANGED phase
       \/ /\ Returned("res", "interpret")
          /\ IF Top.idx < Len(program)
             THEN /\ kont' = Replace([k |-> "interpret", idx |-> Top.idx + 1])
                  /\ ctl' = Exec(program[Top.idx + 1])
                  /\ UNCHANGED phase
             ELSE phase' = "done" /\ ctl' = Halt /\ kont' = Pop
    /\ UNCHANGED <<program, locals, envs, environment, classes, instances,
                   errors, had_error, had_runtime_error, output>>
    /\ UNCHANGED session

\* a way out that restores the environment only after a normal completion
leave_block_on_ok(frame, r) == IF r.k = "Ok" THEN frame.previous ELSE frame.environment

\* the environment execute_block makes current on its way out, whatever the
\* result `r` of the last statement executed: the one saved on entry
leave_block(frame, r) == frame.previous

\* Interpreter::execute_block
execute_block ==
    /\ phase = "interpret"
    /\ \/ /\ ctl.m = "execute_block"
          /\ LET frame == [k |-> "execute_block", statements |-> ctl.statements,
                           idx |-> 1, previous |-> environment,
                           environment |-> ctl.environment]
             IN  IF ctl.statements = <<>>
                 THEN /\ environment' = leave_block(frame, Ok)
                      /\ ctl' = Res(Ok)
                      /\ UNCHANGED kont
                 ELSE /\ environment' = ctl.environment
                      /\ kont' = Push(frame)
                      /\ ctl' = Exec(ctl.statements[1])
       \/ /\ Returned("res", "execute_block")
          /\ IF ctl.r.k # "Ok"
             THEN /\ environment' = leave_block(Top, ctl.r)
                  /\ kont' = Pop
                  /\ ctl' = Res(ctl.r)
             ELSE IF Top.idx < Len(Top.statements)
             THEN /\ kont' = Replace([Top EXCEPT !.idx = @ + 1])
                  /\ ctl' = Exec(Top.statements[Top.idx + 1])
                  /\ UNCHANGED environment
             ELSE /\ environment' = leave_block(Top, Ok)
                  /\ kont' = Pop
                  /\ ctl' = Res(Ok)
    /\ UNCHANGED <<program, phase, locals, envs, classes, instances,
                   errors, had_error, had_runtime_error, output>>
    /\ UNCHANGED session

\* ------------------------------------------------------------------------
\* impl StmtVisitor for Interpreter
\* ------------------------------------------------------------------------

visit_expression_stmt ==
    /\ \/ /\ Visiting("Expression")
          /\ kont' = Push([k |-> "expression_stmt"])
          /\ ctl' = Eval(ctl.s.expr)
       \/ /\ Returned("val", "expression_stmt")
          /\ kont' = Pop
          /\ ctl' = Res(Ok)
    /\ UNCHANGED <<program, phase, locals, envs, environment, classes, instances,
                   errors, had_error, had_runtime_error, output>>
    /\ UNCHANGED session

visit_function_stmt ==
    /\ Visiting("Function")
    /\ LET function == FunctionObj(ctl.s, environment, FALSE) IN
       envs' = EnvDefine(envs, environment, function.name.lexeme, function)
    /\ ctl' = Res(Ok)
    /\ UNCHANGED <<program, phase, locals, environment, classes, instances, kont,
                   errors, had_error, had_runtime_error, output>>
    /\ UNCHANGED session

visit_if_stmt ==
    /\ \/ /\ Visiting("If")
          /\ kont' = Push([k |-> "if_stmt", s |-> ctl.s])
          /\ ctl' = Eval(ctl.s.condition)
       \/ /\ Returned("val", "if_stmt")
          /\ kont' = Pop
          /\ ctl' = IF AsBool(ctl.v) THEN Exec(Top.s.then_branch)
                    ELSE IF Top.s.else_branch.t # "None" THEN Exec(Top.s.else_branch)
                    ELSE Res(Ok)
    /\ UNCHANGED <<program, phase, locals, envs, environment, classes, instances,
                   errors, had_error, had_runtime_error, output>>
    /\ UNCHANGED session

visit_print_stmt ==
    /\ \/ /\ Visiting("Print")
          /\ kont' = Push([k |-> "print_stmt"])
          /\ ctl' = Eval(ctl.s.expr)
          /\ UNCHANGED output
       \/ /\ Returned("val", "print_stmt")
          /\ kont' = Pop
          /\ ctl' = Res(Ok)
          /\ output' = IF did_error THEN output
                       ELSE Append(output, Display(classes, instances, ctl.v))
    /\ UNCHANGED <<program, phase, locals, envs, environment, classes, instances,
                   errors, had_error, had_runtime_error>>
    /\ UNCHANGED session

visit_return_stmt ==
    /\ \/ /\ Visiting("Return")
          /\ IF ctl.s.value.t # "None"
             THEN /\ kont' = Push([k |-> "return_stmt"])
                  /\ ctl' = Eval(ctl.s.value)
             ELSE /\ ctl' = Res(ErrReturn(Null))
                  /\ UNCHANGED kont
       \/ /\ Returned("val", "return_stmt")
          /\ kont' = Pop
          /\ ctl' = Res(ErrReturn(ctl.v))
    /\ UNCHANGED <<program, phase, locals, envs, environment, classes, instances,
                   errors, had_error, had_runtime_error, output>>
    /\ UNCHANGED session

visit_break_stmt ==
    /\ Visiting("Break")
    /\ ctl' = Res(ErrBreak)
    /\ UNCHANGED <<program, phase, locals, envs, environment, classes, instances, kont,
                   errors, had_error, had_runtime_error, output>>
    /\ UNCHANGED session

visit_var_stmt ==
    /\ \/ /\ Visiting("Var")
          /\ IF ctl.s.initializer.t # "None"
             THEN /\ kont' = Push([k |-> "var_stmt", s |-> ctl.s])
                  /\ ctl' = Eval(ctl.s.initializer)
                  /\ UNCHANGED envs
             ELSE /\ envs' = EnvDefine(envs, environment, ctl.s.name.lexeme, Null)
                  /\ ctl' = Res(Ok)
                  /\ UNCHANGED kont
       \/ /\ Returned("val", "var_stmt")
          /\ envs' = EnvDefine(envs, environment, Top.s.name.lexeme, ctl.v)
          /\ kont' = Pop
          /\ ctl' = Res(Ok)
    /\ UNCHANGED <<program, phase, locals, environment, classes, instances,
                   errors, had_error, had_runtime_error, output>>
    /\ UNCHANGED session

\* the test on the result of executing the body in visit_while_stmt: only a
\* Break result leaves the loop
\* a loop that no result of its body ends
while_leaves_never(r) == FALSE

while_leaves(r) == r.k = "Break"

visit_while_stmt ==
    /\ \/ /\ Visiting("While")
          /\ kont' = Push([k |-> "while_condition", s |-> ctl.s])
          /\ ctl' = Eval(ctl.s.condition)
       \/ /\ Returned("val", "while_condition")
          /\ IF AsBool(ctl.v)
             THEN /\ kont' = Replace([k |-> "while_body", s |-> Top.s])
                  /\ ctl' = Exec(Top.s.body)
             ELSE /\ kont' = Pop
                  /\ ctl' = Res(Ok)
       \/ /\ Returned("res", "while_body")
          /\ IF while_leaves(ctl.r)
             THEN /\ kont' = Pop
                  /\ ctl' = Res(Ok)
             ELSE /\ kont' = Replace([k |-> "while_condition", s |-> Top.s])
                  /\ ctl' = Eval(Top.s.condition)
    /\ UNCHANGED <<program, phase, locals, envs, environment, classes, instances,
                   errors, had_error, had_runtime_error, output>>
    /\ UNCHANGED session

visit_block_stmt ==
    /\ Visiting("Block")
    /\ Len(envs) < MaxEnvs
    /\ envs' = Append(envs, NewEnvironment(environment))
    /\ ctl' = [m |-> "execute_block", statements |-> ctl.s.statements,
               environment |-> Len(envs) + 1]
    /\ UNCHANGED <<program, phase, locals, environment, classes, instances, kont,
                   errors, had_error, had_runtime_error, output>>
    /\ UNCHANGED session

\* the HashMap of methods built by the loop in visit_class_stmt
RECURSIVE class_methods(_, _, _, _)
class_methods(methods, i, closure, acc) ==
    IF i > Len(methods) THEN acc
    ELSE class_methods(methods, i + 1, closure,
             Insert(acc, methods[i].name.lexeme,
                    FunctionObj(methods[i], closure, methods[i].name.lexeme = "init")))

\* visit_class_stmt from the definition of the name on; `superclass` is the
\* evaluated superclass expression or NoObject
class_stmt_rest(s, superclass) ==
    LET h1 == EnvDefine(envs, environment, s.name.lexeme, Null)
        h2 == IF superclass.k # "none"
              THEN Append(h1, [NewEnvironment(environment) EXCEPT
                                   !.variables = Insert(@, "super", superclass)])
              ELSE h1
        environment1 == IF superclass.k # "none" THEN Len(h2) ELSE environment
        methods == class_methods(s.methods, 1, environment1, EmptyMap)
        class == NewClass(s.name.lexeme, superclass, methods)
        environment2 == IF superclass.k # "none" THEN h2[environment1].enclosing
                        ELSE environment1
        a == assign(h2, environment2, s.name, ClassObj(Len(classes) + 1))
    IN  /\ superclass.k # "none" => Len(envs) < MaxEnvs
        /\ classes' = Append(classes, class)
        /\ envs' = a.h
        /\ environment' = environment2
        /\ ctl' = Res(Ok)

visit_class_stmt ==
    /\ \/ /\ Visiting("Class")
          /\ IF ctl.s.superclass.t # "None"
             THEN /\ kont' = Push([k |-> "class_stmt", s |-> ctl.s])
                  /\ ctl' = Eval(ctl.s.superclass)
                  /\ UNCHANGED <<envs, environment, classes>>
                  /\ no_throw
             ELSE /\ class_stmt_rest(ctl.s, NoObject)
                  /\ UNCHANGED kont
                  /\ no_throw
       \/ /\ Returned("val", "class_stmt")
          /\ IF ctl.v.k # "class"
             THEN throw(RuntimeError(Top.s.name, "Superclass must be a class"))
             ELSE no_throw
          /\ class_stmt_rest(Top.s, ctl.v)
          /\ kont' = Pop
    /\ UNCHANGED <<program, phase, locals, instances, had_error, output>>
    /\ UNCHANGED session

\* ------------------------------------------------------------------------
\* impl ExprVisitor for Interpreter
\* ------------------------------------------------------------------------

visit_literal_expr ==
    /\ Evaluating("Literal")
    /\ ctl' = Val(ctl.e.value)
    /\ UNCHANGED <<program, phase, locals, envs, environment, classes, instances, kont,
                   errors, had_error, had_runtime_error, output>>
    /\ UNCHANGED session

\* a logical operator that always goes on to its right operand
short_circuits_never(operator, left) == FALSE

\* the test of visit_logical_expr: the left operand is the result
short_circuits(operator, left) ==
    \/ operator = "or" /\ AsBool(left)
    \/ operator = "and" /\ ~AsBool(left)

visit_logical_expr ==
    /\ \/ /\ Evaluating("Logical")
          /\ kont' = Push([k |-> "logical_expr", e |-> ctl.e])
          /\ ctl' = Eval(ctl.e.left)
       \/ /\ Returned("val", "logical_expr")
          /\ kont' = Pop
          /\ ctl' = IF short_circuits(Top.e.operator, ctl.v)
                     THEN Val(ctl.v) ELSE Eval(Top.e.right)
    /\ UNCHANGED <<program, phase, locals, envs, environment, classes, instances,
                   errors, had_error, had_runtime_error, output>>
    /\ UNCHANGED session

visit_grouping_expr ==
    /\ Evaluating("Grouping")
    /\ ctl' = Eval(ctl.e.expr)
    /\ UNCHANGED <<program, phase, locals, envs, environment, classes, instances, kont,
                   errors, had_error, had_runtime_error, output>>
    /\ UNCHANGED session

visit_binary_expr ==
    /\ \/ /\ Evaluating("Binary")
          /\ kont' = Push([k |-> "binary_left", e |-> ctl.e])
          /\ ctl' = Eval(ctl.e.left)
          /\ no_throw
       \/ /\ Returned("val", "binary_left")
          /\ kont' = Replace([k |-> "binary_right", e |-> Top.e, left |-> ctl.v])
          /\ ctl' = Eval(Top.e.right)
          /\ no_throw
       \/ /\ Returned("val", "binary_right")
          /\ LET r == binary_op(Top.e.operator.lexeme, Top.left, ctl.v) IN
             /\ IF r.st = "err"
                THEN throw(RuntimeError(Top.e.operator, r.message))
                ELSE no_throw
             /\ ctl' = Val(r.v)
          /\ kont' = Pop
    /\ UNCHANGED <<program, phase, locals, envs, environment, classes, instances,
                   had_error, output>>
    /\ UNCHANGED session

\* a lookup that reads an unresolved name in the current frame only
lookup_variable_in_frame(name) ==
    LET r == IF ContainsKey(locals, name)
             THEN get_at(envs, environment, locals[name], name)
             ELSE get_at(envs, environment, 0, name)
    IN  CASE r.st = "ok" -> ctl' = Val(r.v) /\ no_throw /\ UNCHANGED phase
          [] r.st = "err" ->
               /\ throw(RuntimeError(name, "Undefined variable"))
               /\ ctl' = Val(Null)
               /\ UNCHANGED phase
          [] r.st = "panic" -> panic /\ no_throw

\* Interpreter::lookup_variable: a resolved name is read at its recorded
\* distance from the current frame, any other name in the globals
lookup_variable(name) ==
    LET r == IF ContainsKey(locals, name)
             THEN get_at(envs, environment, locals[name], name)
             ELSE get(envs, globals, name)
    IN  CASE r.st = "ok" -> ctl' = Val(r.v) /\ no_throw /\ UNCHANGED phase
          [] r.st = "err" ->
               /\ throw(RuntimeError(name, IF ContainsKey(locals, name)
                                           THEN "Undefined variable at distance"
                                           ELSE "Undefined variable"))
               /\ ctl' = Val(Null)
               /\ UNCHANGED phase
          [] r.st = "panic" -> panic /\ no_throw

visit_variable_expr ==
    /\ Evaluating("Variable")
    /\ lookup_variable(ctl.e.name)
    /\ UNCHANGED <<program, locals, envs, environment, classes, instances, kont,
                   had_error, output>>
    /\ UNCHANGED session

visit_this_expr ==
    /\ Evaluating("This")
    /\ lookup_variable(ctl.e.keyword)
    /\ UNCHANGED <<program, locals, envs, environment, classes, instances, kont,
                   had_error, output>>
    /\ UNCHANGED session

visit_assign_expr ==
    /\ \/ /\ Evaluating("Assign")
          /\ kont' = Push([k |-> "assign_expr", e |-> ctl.e])
          /\ ctl' = Eval(ctl.e.value)
          /\ no_throw
          /\ UNCHANGED <<envs, phase>>
       \/ /\ Returned("val", "assign_expr")
          /\ LET name == Top.e.name
                 a == IF ContainsKey(locals, name)
                      THEN assign_at(envs, environment, locals[name], name, ctl.v)
                      ELSE assign(envs, globals, name, ctl.v)
             IN  CASE a.st = "ok" ->
                        /\ envs' = a.h
                        /\ ctl' = Val(ctl.v)
                        /\ kont' = Pop
                        /\ no_throw
                        /\ UNCHANGED phase
                   [] a.st = "err" ->
                        /\ throw(RuntimeError(name, "Undefined variable"))
                        /\ ctl' = Val(ctl.v)
                        /\ kont' = Pop
                        /\ UNCHANGED <<envs, phase>>
                   [] a.st = "panic" -> panic /\ no_throw /\ UNCHANGED envs
    /\ UNCHANGED <<program, locals, environment, classes, instances, had_error, output>>
    /\ UNCHANGED session

\* a property read that prefers the method to the field
instance_get_method_first(h, cs, is, name, instance) ==
    LET method == get_method(cs, is[instance.id].class, name.lexeme) IN
    IF method.k # "none"
    THEN LET b == bind(h, method, instance) IN [st |-> "ok", v |-> b.f, h |-> b.h]
    ELSE IF ContainsKey(is[instance.id].fields, name.lexeme)
    THEN [st |-> "ok", v |-> is[instance.id].fields[name.lexeme], h |-> h]
    ELSE [st |-> "err", v |-> Null, h |-> h]

\* Instance::get: a field, else a method bound to the instance, else an error
instance_get(h, cs, is, name, instance) ==
    IF ContainsKey(is[instance.id].fields, name.lexeme)
    THEN [st |-> "ok", v |-> is[instance.id].fields[name.lexeme], h |-> h]
    ELSE LET method == get_method(cs, is[instance.id].class, name.lexeme) IN
         IF method.k # "none"
         THEN LET b == bind(h, method, instance) IN [st |-> "ok", v |-> b.f, h |-> b.h]
         ELSE [st |-> "err", v |-> Null, h |-> h]

visit_get_expr ==
    /\ \/ /\ Evaluating("Get")
          /\ kont' = Push([k |-> "get_expr", e |-> ctl.e])
          /\ ctl' = Eval(ctl.e.object)
          /\ no_throw
          /\ UNCHANGED <<envs, phase>>
       \/ /\ Returned("val", "get_expr")
          /\ IF ctl.v.k = "instance"
             THEN LET r == instance_get(envs, classes, instances, Top.e.name, ctl.v) IN
                  IF r.st = "ok"
                  THEN /\ Len(r.h) <= MaxEnvs
                       /\ envs' = r.h
                       /\ ctl' = Val(r.v)
                       /\ kont' = Pop
                       /\ no_throw
                       /\ UNCHANGED phase
                  ELSE \* err.throw(); todo!()
                       /\ throw(RuntimeError(Top.e.name, "Undefined property"))
                       /\ panic
                       /\ UNCHANGED envs
             ELSE /\ throw(RuntimeError(Top.e.name, "Only instances have properties"))
                  /\ panic
                  /\ UNCHANGED envs
    /\ UNCHANGED <<program, locals, environment, classes, instances, had_error, output>>
    /\ UNCHANGED session

\* Instance::set
instance_set(is, i, name, value) ==
    [is EXCEPT ![i].fields = Insert(@, name.lexeme, value)]

visit_set_expr ==
    /\ \/ /\ Evaluating("Set")
          /\ kont' = Push([k |-> "set_object", e |-> ctl.e])
          /\ ctl' = Eval(ctl.e.object)
          /\ no_throw
          /\ UNCHANGED <<instances, phase>>
       \/ /\ Returned("val", "set_object")
          /\ IF ctl.v.k = "instance"
             THEN /\ kont' = Replace([k |-> "set_value", e |-> Top.e, instance |-> ctl.v.id])
                  /\ ctl' = Eval(Top.e.value)
                  /\ no_throw
                  /\ UNCHANGED phase
             ELSE /\ throw(RuntimeError(Top.e.name, "Only instances can have fields"))
                  /\ panic
          /\ UNCHANGED instances
       \/ /\ Returned("val", "set_value")
          /\ instances' = instance_set(instances, Top.instance, Top.e.name, ctl.v)
          /\ ctl' = Val(ctl.v)
          /\ kont' = Pop
          /\ no_throw
          /\ UNCHANGED phase
    /\ UNCHANGED <<program, locals, envs, environment, classes, had_error, output>>
    /\ UNCHANGED session

\* a lookup that starts at the superclass of the class of `this`
super_frames_of_instance(h, e, distance) ==
    LET object == IF distance = 0 THEN [st |-> "panic", v |-> Null]
                  ELSE get_at(h, e, distance - 1, TokenFrom("this"))
    IN  [superclass |-> IF object.st = "ok" /\ object.v.k = "instance"
                        THEN [st |-> "ok",
                              v |-> classes[instances[object.v.id].class].superclass]
                        ELSE [st |-> "panic", v |-> Null],
         object |-> object]

\* the class at which `super.m` starts its method lookup, and the object it
\* binds the method to: the frames at the recorded distance and one nearer
super_frames(h, e, distance) ==
    [superclass |-> get_at(h, e, distance, TokenFrom("super")),
     object |-> IF distance = 0 THEN [st |-> "panic", v |-> Null]
                ELSE get_at(h, e, distance - 1, TokenFrom("this"))]

visit_super_expr ==
    /\ Evaluating("Super")
    /\ IF ~ContainsKey(locals, ctl.e.keyword)
       THEN panic /\ no_throw /\ UNCHANGED envs
       ELSE LET f == super_frames(envs, environment, locals[ctl.e.keyword]) IN
            IF f.superclass.st # "ok" \/ f.object.st # "ok" \/ f.superclass.v.k # "class"
            THEN panic /\ no_throw /\ UNCHANGED envs
            ELSE LET method == get_method(classes, f.superclass.v.id, ctl.e.method.lexeme) IN
                 IF method.k # "none"
                 THEN /\ Len(envs) < MaxEnvs
                      /\ LET b == bind(envs, method, f.object.v) IN
                         envs' = b.h /\ ctl' = Val(b.f)
                      /\ no_throw
                      /\ UNCHANGED phase
                 ELSE /\ throw(RuntimeError(ctl.e.method, "Undefined property"))
                      /\ ctl' = Val(Null)
                      /\ UNCHANGED <<envs, phase>>
    /\ UNCHANGED <<program, locals, environment, classes, instances, kont,
                   had_error, output>>
    /\ UNCHANGED session

\* ------------------------------------------------------------------------
\* Calls: Interpreter::visit_call_expr and impl Callable
\* ------------------------------------------------------------------------

\* Callable::arity of a callee object
arity(cs, callee) ==
    CASE callee.k = "function" -> function_arity(callee)
      [] callee.k = "native" -> native_arity
      [] callee.k = "class" -> class_arity(cs, callee.id)

\* a call that is made whatever the number of arguments
arity_unchecked(cs, callee, arguments) == TRUE

\* the arity test of visit_call_expr
arity_ok(cs, callee, arguments) == Len(arguments) = arity(cs, callee)

\* the `match callee` of visit_call_expr, once callee and arguments are
\* evaluated; the activation stays on the stack while the callee runs
call_dispatch(e, callee, arguments) ==
    IF callee.k \in {"function", "native", "class"}
    THEN IF ~arity_ok(classes, callee, arguments)
         THEN /\ throw(ArityError(e.paren, arity(classes, callee), Len(arguments)))
              /\ ctl' = Val(Null)
              /\ kont' = Pop
         ELSE /\ no_throw
              /\ kont' = Replace([k |-> "call_return", e |-> e])
              /\ ctl' = CASE callee.k = "function" ->
                               [m |-> "function_call", f |-> callee, arguments |-> arguments]
                          [] callee.k = "native" ->
                               [m |-> "native_call", f |-> callee, arguments |-> arguments]
                          [] callee.k = "class" ->
                               [m |-> "class_call", c |-> callee.id, arguments |-> arguments]
    ELSE /\ throw(RuntimeError(e.paren, "Can only call functions and classes"))
         /\ ctl' = Val(Null)
         /\ kont' = Pop

visit_call_expr ==
    /\ \/ /\ Evaluating("Call")
          /\ kont' = Push([k |-> "call_callee", e |-> ctl.e])
          /\ ctl' = Eval(ctl.e.callee)
          /\ no_throw
       \/ /\ Returned("val", "call_callee")
          /\ IF Top.e.arguments = <<>>
             THEN call_dispatch(Top.e, ctl.v, <<>>)
             ELSE /\ kont' = Replace([k |-> "call_arguments", e |-> Top.e,
                                      callee |-> ctl.v, arguments |-> <<>>])
                  /\ ctl' = Eval(Top.e.arguments[1])
                  /\ no_throw
       \/ /\ Returned("val", "call_arguments")
          /\ LET arguments == Append(Top.arguments, ctl.v) IN
             IF Len(arguments) < Len(Top.e.arguments)
             THEN /\ kont' = Replace([Top EXCEPT !.arguments = arguments])
                  /\ ctl' = Eval(Top.e.arguments[Len(arguments) + 1])
                  /\ no_throw
             ELSE call_dispatch(Top.e, Top.callee, arguments)
       \/ /\ Returned("callres", "call_return")
          /\ IF ctl.st = "ok"
             THEN no_throw
             ELSE throw(RuntimeError(Top.e.paren, ctl.message))
          /\ ctl' = Val(ctl.v)
          /\ kont' = Pop
    /\ UNCHANGED <<program, phase, locals, envs, environment, classes, instances,
                   had_error, output>>
    /\ UNCHANGED session

\* the frame Function::call creates: a child of the closure that binds the
\* parameters to the arguments
RECURSIVE bind_parameters(_, _, _, _)
\* a binding that hands the first argument to every parameter
bind_parameters_first(frame, params, arguments, i) ==
    IF params = <<>> \/ arguments = <<>> THEN frame
    ELSE [frame EXCEPT !.variables =
              [p \in {params[j].lexeme : j \in DOMAIN params} |-> arguments[1]] @@ @]

bind_parameters(frame, params, arguments, i) ==
    IF i > Len(params) \/ i > Len(arguments) THEN frame
    ELSE bind_parameters([frame EXCEPT !.variables = Insert(@, params[i].lexeme, arguments[i])],
                         params, arguments, i + 1)

\* a result that treats an initializer like any other function
function_result_plain(h, f, r) ==
    CASE r.k = "Ok" -> CallOk(Null)
      [] r.k = "Return" -> CallOk(r.value)
      [] OTHER -> Halt

\* what Function::call returns for the result `r` of executing the body
function_result(h, f, r) ==
    IF f.is_initializer
    THEN LET this == get_at(h, f.closure, 0, TokenFrom("this")) IN
         IF this.st = "ok" THEN CallOk(this.v) ELSE CallErr("Undefined variable at distance")
    ELSE CASE r.k = "Ok" -> CallOk(Null)
           [] r.k = "Return" -> CallOk(r.value)
           [] OTHER -> Halt    \* unreachable!()

\* Function::call
function_call ==
    /\ phase = "interpret"
    /\ \/ /\ ctl.m = "function_call"
          /\ Len(envs) < MaxEnvs
          /\ envs' = Append(envs, bind_parameters(NewEnvironment(ctl.f.closure),
                                                  ctl.f.params, ctl.arguments, 1))
          /\ kont' = Push([k |-> "function_call", f |-> ctl.f])
          /\ ctl' = [m |-> "execute_block", statements |-> ctl.f.body,
                     environment |-> Len(envs) + 1]
          /\ UNCHANGED phase
       \/ /\ Returned("res", "function_call")
          /\ LET result == function_result(envs, Top.f, ctl.r) IN
             IF result = Halt
             THEN panic
             ELSE ctl' = result /\ kont' = Pop /\ UNCHANGED phase
          /\ UNCHANGED envs
    /\ UNCHANGED <<program, locals, environment, classes, instances,
                   errors, had_error, had_runtime_error, output>>
    /\ UNCHANGED session

\* Class::call
class_call ==
    /\ phase = "interpret"
    /\ \/ /\ ctl.m = "class_call"
          /\ LET class == Len(classes) + 1      \* Rc::new(RefCell::new(self.clone()))
                 instance == InstanceObj(Len(instances) + 1)
                 initializer == get_method(classes, ctl.c, "init")
             IN  /\ classes' = Append(classes, classes[ctl.c])
                 /\ instances' = Append(instances, [class |-> class, fields |-> EmptyMap])
                 /\ IF initializer.k # "none"
                    THEN LET b == bind(envs, initializer, instance) IN
                         /\ Len(envs) < MaxEnvs
                         /\ envs' = b.h
                         /\ kont' = Push([k |-> "class_call", instance |-> instance])
                         /\ ctl' = [m |-> "function_call", f |-> b.f,
                                    arguments |-> ctl.arguments]
                    ELSE /\ ctl' = CallOk(instance)
                         /\ UNCHANGED <<envs, kont>>
       \/ /\ Returned("callres", "class_call")
          /\ ctl' = IF ctl.st = "ok" THEN CallOk(Top.instance) ELSE ctl
          /\ kont' = Pop
          /\ UNCHANGED <<envs, classes, instances>>
    /\ UNCHANGED <<program, phase, locals, environment,
                   errors, had_error, had_runtime_error, output>>
    /\ UNCHANGED session

\* what the host may hand back from `clock()` and `input()`
ClockValues == {Number(0), Number(1)}
InputValues == {String(""), String("x")}

\* NativeFunction::call
native_call ==
    /\ phase = "interpret"
    /\ ctl.m = "native_call"
    /\ \E v \in (IF ctl.f.name = "clock" THEN ClockValues ELSE InputValues) :
          ctl' = CallOk(v)
    /\ UNCHANGED <<program, phase, locals, envs, environment, classes, instances, kont,
                   errors, had_error, had_runtime_error, output>>
    /\ UNCHANGED session

\* ------------------------------------------------------------------------
\* Specification
\* ------------------------------------------------------------------------

\* rocks::run_file after `run`: the exit status.  A return from run_file
\* ends main, and the process, with status 0.
run_file ==
    /\ mode = "file" /\ phase = "done" /\ status = <<>>
    /\ status' = IF HAD_ERROR THEN <<65>>
                 ELSE IF HAD_RUNTIME_ERROR THEN <<70>>
                 ELSE <<0>>
    /\ UNCHANGED <<program, phase, locals, envs, environment, classes, instances,
                   ctl, kont, errors, had_error, had_runtime_error, output,
                   mode, lines, HAD_ERROR, HAD_RUNTIME_ERROR>>

\* rocks::run_prompt: the loop reads a line and hands it to `run`, and after
\* `run` clears the flags of lib.rs.  At the end of the input the loop has
\* no further line to run.
run_prompt ==
    /\ mode = "prompt"
    /\ \/ /\ phase = "prompt" /\ lines # <<>>
          /\ program' = Head(lines)
          /\ lines' = Tail(lines)
          /\ phase' = "start"
          /\ UNCHANGED <<HAD_ERROR, HAD_RUNTIME_ERROR>>
       \/ /\ phase = "done"
          /\ HAD_ERROR' = FALSE
          /\ HAD_RUNTIME_ERROR' = FALSE
          /\ phase' = "prompt"
          /\ UNCHANGED <<program, lines>>
    /\ UNCHANGED <<locals, envs, environment, classes, instances, ctl, kont,
                   errors, had_error, had_runtime_error, output, mode, status>>

Next ==
    \/ run_file
    \/ run_prompt
    \/ run
    \/ interpret
    \/ execute_block
    \/ visit_expression_stmt
    \/ visit_function_stmt
    \/ visit_if_stmt
    \/ visit_print_stmt
    \/ visit_return_stmt
    \/ visit_break_stmt
    \/ visit_var_stmt
    \/ visit_while_stmt
    \/ visit_block_stmt
    \/ visit_class_stmt
    \/ visit_literal_expr
    \/ visit_logical_expr
    \/ visit_grouping_expr
    \/ visit_binary_expr
    \/ visit_variable_expr
    \/ visit_this_expr
    \/ visit_assign_expr
    \/ visit_get_expr
    \/ visit_set_expr
    \/ visit_super_expr
    \/ visit_call_expr
    \/ function_call
    \/ class_call
    \/ native_call

Spec == Init /\ [][Next]_vars

\* ------------------------------------------------------------------------
\* Environment on its own: one call of assign, assign_at or get_at on a
\* frame of a chain of frames
\* ------------------------------------------------------------------------

\* Longest chain of frames.
MaxDepth == 3

Names == {"a", "b"}

\* the value the calls assign
Assigned == Number(9)

\* the chains of `depth` frames: frame i encloses frame i + 1 and binds
\* some of the names, each to the number i
Chains(depth) ==
    {[i \in 1..depth |-> [enclosing |-> i - 1,
                          variables |-> [n \in bound[i] |-> Number(i)]]] :
         bound \in [1..depth -> SUBSET Names]}

Calls ==
    {[m |-> "assign", name |-> Tok(n, 0), value |-> Assigned] : n \in Names}
    \cup {[m |-> "assign_at", distance |-> d, name |-> Tok(n, 0), value |-> Assigned] :
              d \in 0..MaxDepth, n \in Names}
    \cup {[m |-> "get_at", distance |-> d, name |-> Tok(n, 0)] :
              d \in 0..MaxDepth, n \in Names}

\* a chain, the frame the call is made on, and the call
EnvironmentInit ==
    /\ envs \in UNION {Chains(depth) : depth \in 1..MaxDepth}
    /\ environment \in DOMAIN envs
    /\ ctl \in Calls
    /\ phase = "call"
    /\ mode = "file" /\ lines = <<>> /\ status = <<>>
    /\ HAD_ERROR = FALSE /\ HAD_RUNTIME_ERROR = FALSE
    /\ program = <<>> /\ locals = EmptyMap
    /\ classes = <<>> /\ instances = <<>>
    /\ kont = <<>> /\ output = <<>>
    /\ errors = <<>> /\ had_error = FALSE /\ had_runtime_error = FALSE

\* Environment::assign on the frame `environment`
call_assign ==
    /\ phase = "call" /\ ctl.m = "assign"
    /\ LET a == assign(envs, environment, ctl.name, ctl.value) IN
       /\ envs' = a.h
       /\ IF a.st = "err"
          THEN throw(RuntimeError(ctl.name, "Undefined variable"))
          ELSE no_throw
    /\ phase' = "returned"
    /\ ctl' = Res(Ok)
    /\ UNCHANGED <<program, locals, environment, classes, instances, kont,
                   had_error, output>>
    /\ UNCHANGED session

\* Environment::assign_at on the frame `environment`
call_assign_at ==
    /\ phase = "call" /\ ctl.m = "assign_at"
    /\ LET a == assign_at(envs, environment, ctl.distance, ctl.name, ctl.value) IN
       IF a.st = "panic"
       THEN panic /\ UNCHANGED envs
       ELSE envs' = a.h /\ phase' = "returned" /\ ctl' = Res(Ok) /\ UNCHANGED kont
    /\ UNCHANGED <<program, locals, environment, classes, instances,
                   errors, had_error, had_runtime_error, output>>
    /\ UNCHANGED session

\* Environment::get_at on the frame `environment`
call_get_at ==
    /\ phase = "call" /\ ctl.m = "get_at"
    /\ LET r == get_at(envs, environment, ctl.distance, ctl.name) IN
       IF r.st = "panic"
       THEN panic
       ELSE phase' = "returned" /\ ctl' = r /\ UNCHANGED kont
    /\ UNCHANGED <<program, locals, envs, environment, classes, instances,
                   errors, had_error, had_runtime_error, output>>
    /\ UNCHANGED session

EnvironmentNext ==
    \/ call_assign
    \/ call_assign_at
    \/ call_get_at

EnvironmentSpec == EnvironmentInit /\ [][EnvironmentNext]_vars

\* ------------------------------------------------------------------------
\* Properties
\* ------------------------------------------------------------------------

\* the program was interpreted to its end: the run is over, no pass before
\* the interpreter reported an error and the process did not abort
Finished == phase = "done" /\ ~had_error

\* the value of a global variable, Null while it is not defined
Global(name) ==
    IF ContainsKey(envs[globals].variables, name)
    THEN envs[globals].variables[name] ELSE Null

\* C1: in a function whose loop body executes `return V` inside a nested
\* block, the loop stops, the statement after the loop ("print after") never
\* runs, and the call evaluates to V (so that `print f();` prints V alone).
C1_ReturnLeavesLoop ==
    \A u \in Booleans, f \in Booleans, K \in 1..MaxIter, V \in ReturnValues :
        program = ReturnInLoop(u, f, K, V) =>
            /\ \A i \in DOMAIN output : output[i] # "after"
            /\ Returned("res", "while_body") /\ ctl.r.k = "Return" => while_leaves(ctl.r)
            /\ Finished => output = <<ToString(V)>>

\* C2: once a runtime error has been raised, no statement is executed any
\* more: no later statement of the program and no further loop iteration.
C2_RuntimeErrorStops ==
    had_runtime_error => ~(phase = "interpret" /\ ctl.m = "exec")

\* C3: two closures declared in the same scope share its frame: after
\* `set(V)` has assigned x through one closure, `read()` through the other
\* returns V, also when the defining function has returned by then.
C3_ClosuresShareFrame ==
    \A b \in Booleans, V \in ReturnValues :
        program = SharedClosure(b, V) =>
            /\ Global("f").k = "function" /\ Global("g").k = "function"
                   => Global("f").closure = Global("g").closure
            /\ Finished => output = <<ToString(V)>>

C3_Witness ==
    /\ program = SharedClosure(FALSE, 8)
    /\ Finished
    /\ output = <<"8">>
    /\ Global("f").closure = Global("g").closure
    /\ envs[Global("g").closure].variables["x"] = Number(8)

\* C4: the `a` in the body of foo is the one visible where foo is declared:
\* the calls before and after the block's own `var a = "inner"` read, and
\* assign, the outer `a`; the block's `a` is left alone.
C4_EarlyBound ==
    \A w \in Booleans, d \in Booleans :
        program = EarlyBound(w, d) /\ Finished =>
            output = IF d THEN <<"outer", "assigned", "inner", "assigned">>
                     ELSE <<"outer", "outer", "inner", "outer">>

C4_Witness ==
    /\ program = EarlyBound(TRUE, TRUE)
    /\ Finished
    /\ output = <<"outer", "assigned", "inner", "assigned">>

\* the frame `distance` links up from the current one exists and binds `name`
Reaches(distance, name) ==
    LET a == ancestor(envs, environment, distance)
    IN  a # 0 /\ ContainsKey(envs[a].variables, name)

\* C5: in a program the resolver accepted, every read and every assignment
\* made at a distance the resolver recorded for it reaches an existing frame
\* that binds the name; `super` is bound at its distance and `this` one
\* frame nearer.  (The table of a run of a file holds the distances of that
\* program only.)
C5_ResolvedDistanceReachesBinding ==
    mode = "file" =>
    /\ Evaluating("Variable") /\ ContainsKey(locals, ctl.e.name)
           => Reaches(locals[ctl.e.name], ctl.e.name.lexeme)
    /\ Evaluating("This") /\ ContainsKey(locals, ctl.e.keyword)
           => Reaches(locals[ctl.e.keyword], "this")
    /\ Returned("val", "assign_expr") /\ ContainsKey(locals, Top.e.name)
           => Reaches(locals[Top.e.name], Top.e.name.lexeme)
    /\ Evaluating("Super")
           => /\ ContainsKey(locals, ctl.e.keyword)
              /\ locals[ctl.e.keyword] >= 1
              /\ Reaches(locals[ctl.e.keyword], "super")
              /\ Reaches(locals[ctl.e.keyword] - 1, "this")

C5_Witness ==
    /\ Evaluating("Super")
    /\ locals[ctl.e.keyword] = 2
    /\ Reaches(2, "super")
    /\ Reaches(1, "this")
    /\ ~Reaches(0, "this")

\* the environment of the innermost block being executed by the
\* activations `stack`, the globals when there is none
RECURSIVE BlockEnvironment(_)
BlockEnvironment(stack) ==
    IF stack = <<>> THEN globals
    ELSE IF stack[1].k = "execute_block" THEN stack[1].environment
    ELSE BlockEnvironment(Tail(stack))

\* C6: whenever execute_block, a class statement or a function call has
\* finished, normally or with a return/break signal, the current environment
\* is again the one of the block around it: at every point of a run the
\* current environment is the one of the innermost block still executing,
\* and the environment each block saved is the one of the block around it.
C6_EnvironmentRestored ==
    /\ phase = "interpret" => environment = BlockEnvironment(kont)
    /\ Finished => environment = globals
    /\ \A i \in DOMAIN kont :
           kont[i].k = "execute_block" =>
               kont[i].previous = BlockEnvironment(SubSeq(kont, i + 1, Len(kont)))

C6_Witness ==
    /\ program = Unwinding(TRUE)
    /\ Returned("res", "while_body")
    /\ ctl.r.k = "Break"
    /\ environment = BlockEnvironment(kont)
    /\ environment # globals
    /\ Len(envs) > environment + 2

DeclaredArity(kind, np) == IF kind \in {"noinit", "native"} THEN 0 ELSE np

\* C8: a call of a function, bound method, class (own or inherited init, or
\* none) or native function with na arguments where the arity is N # na
\* raises "Expected N arguments but got na", and the body of the callee,
\* which would set `ran`, is not executed; Function::call is never entered
\* with a number of arguments other than the number of parameters.
C8_ArityChecked ==
    /\ \A kind \in CallKinds, np \in 0..MaxArgs, na \in 0..MaxArgs :
           program = ArityCall(kind, np, na) /\ na # DeclaredArity(kind, np) =>
               /\ Global("ran") # Bool(TRUE)
               /\ Finished =>
                      /\ Len(errors) = 1
                      /\ errors[1] = ArityError(Tok(")", 11), DeclaredArity(kind, np), na)
                      /\ Global("result") = Null
    /\ phase = "interpret" /\ ctl.m = "function_call"
           => Len(ctl.arguments) = Len(ctl.f.params)

C8_Witness ==
    /\ program = ArityCall("inherited", 2, 1)
    /\ Finished
    /\ errors = <<ArityError(Tok(")", 11), 2, 1)>>
    /\ Global("ran") = Bool(FALSE)

\* the class whose `m` the call `c.test()` of SuperChain(testIn, bOverrides)
\* has to reach: the nearest declarer above the class that contains `test`
SuperTarget(testIn, bOverrides) == IF testIn = "C" /\ bOverrides THEN "B" ELSE "A"

\* C9: `super.m` in a method starts the lookup at the superclass of the
\* class that declares the method, not at the class of the instance, and
\* binds the method found to the current `this`: called on an instance of C
\* tagged "c", it runs the `m` of SuperTarget, which prints the tag of this.
C9_SuperStartsAtDeclaringClass ==
    \A t \in {"B", "C"}, o \in Booleans :
        program = SuperChain(t, o) =>
            /\ phase # "panic"
            /\ Finished => output = <<SuperTarget(t, o), "c">>

C9_Witness ==
    /\ program = SuperChain("B", TRUE)
    /\ Finished
    /\ output = <<"A", "c">>

MethodNames == {"m", "own", "init", "test"}

\* C10: on every class, get_method(name) is the method of the nearest class
\* of the superclass chain, the class itself first, that declares `name`;
\* it is none exactly when no class of the chain declares it.
C10_NearestDeclaringClass ==
    \A c \in DOMAIN classes, name \in MethodNames :
        LET up[k \in 0..Len(classes)] ==
                IF k = 0 THEN c
                ELSE IF up[k - 1] = 0 THEN 0
                ELSE IF classes[up[k - 1]].superclass.k = "class"
                     THEN classes[up[k - 1]].superclass.id ELSE 0
            declaring == {k \in 0..Len(classes) :
                             up[k] # 0 /\ ContainsKey(classes[up[k]].methods, name)}
        IN  IF declaring = {} THEN get_method(classes, c, name) = NoFunction
            ELSE LET k == CHOOSE j \in declaring : \A j2 \in declaring : j <= j2
                 IN  get_method(classes, c, name) = classes[up[k]].methods[name]

C10_Witness ==
    /\ program = MethodChain(MaxChain, {1})
    /\ Finished
    /\ output = <<"1">>
    /\ \E c \in DOMAIN classes :
           /\ classes[c].name = "K" \o ToString(MaxChain)
           /\ ~ContainsKey(classes[c].methods, "m")
           /\ get_method(classes, c, "m").k = "function"
           /\ get_method(classes, c, "test") = NoFunction


\* C11: a call of a class with matching arity yields a new instance of that
\* class; its fields are its own (x keeps a = 1, b = 2 after y was built);
\* an own or inherited `init` runs exactly once per call (n counts the
\* runs) with `this` bound to the new instance and the parameters bound in
\* order, and the call evaluates to the instance whatever `init` returns.
C11_ClassCallCreatesInstance ==
    /\ \A i \in Booleans, e \in Booleans :
           program = Construct(i, e) /\ Finished =>
               /\ output = <<"2", "1", "2", "3", "4",
                             "<instance " \o (IF i THEN "Q" ELSE "P") \o ">">>
               /\ Global("x").k = "instance" /\ Global("y").k = "instance"
               /\ Global("x").id # Global("y").id
               /\ instances[Global("x").id].fields = ("a" :> Number(1)) @@ ("b" :> Number(2))
               /\ instances[Global("y").id].fields = ("a" :> Number(3)) @@ ("b" :> Number(4))
               /\ Global("n") = Number(Len(instances))
    /\ Returned("callres", "class_call") =>
           /\ ctl.st = "ok"
           /\ ctl.v = Top.instance
           /\ Top.instance.id = Len(instances)

C11_Witness ==
    /\ program = Construct(TRUE, TRUE)
    /\ Finished
    /\ output = <<"2", "1", "2", "3", "4", "<instance Q>">>
    /\ Len(instances) = 2


\* C12: a call of an initializer returns the instance bound as `this`, when
\* the body ends normally and when it executes `return;`; so `o.init(2)`
\* on an existing instance evaluates to `o` itself (no second instance),
\* after having run the body on it.
C12_InitializerReturnsThis ==
    /\ Returned("res", "function_call") /\ Top.f.is_initializer
       /\ ctl.r.k \in {"Ok", "Return"} =>
           /\ ContainsKey(envs[Top.f.closure].variables, "this")
           /\ function_result(envs, Top.f, ctl.r)
                  = CallOk(envs[Top.f.closure].variables["this"])
    /\ \A e \in Booleans :
           program = InitAgain(e) =>
               /\ phase # "panic"
               /\ Finished =>
                      /\ output = <<"2", "2", "<instance K>">>
                      /\ Global("p") = Global("o")
                      /\ Global("o") = InstanceObj(1)
                      /\ Len(instances) = 1

C12_Witness ==
    /\ program = InitAgain(TRUE)
    /\ Returned("res", "function_call")
    /\ Top.f.is_initializer
    /\ ctl.r.k = "Return"
    /\ Global("o") = InstanceObj(1)
    /\ function_result(envs, Top.f, ctl.r) = CallOk(InstanceObj(1))


\* what a property read of `name` on `instance` has to yield
GetAnswers(name, instance) ==
    LET fields == instances[instance.id].fields
        method == get_method(classes, instances[instance.id].class, name.lexeme)
        r == instance_get(envs, classes, instances, name, instance)
    IN  IF ContainsKey(fields, name.lexeme)
        THEN r.st = "ok" /\ r.v = fields[name.lexeme]
        ELSE IF method # NoFunction
        THEN /\ r.st = "ok"
             /\ r.v.k = "function"
             /\ r.v.name = method.name /\ r.v.body = method.body
             /\ r.h[r.v.closure].enclosing = method.closure
             /\ r.h[r.v.closure].variables = ("this" :> instance)
        ELSE r.st = "err"

\* a property write stores into the fields of the one instance
SetStores ==
    Returned("val", "set_value") =>
        instances' = [instances EXCEPT
                          ![Top.instance].fields = (Top.e.name.lexeme :> ctl.v) @@ @]

\* no class, once created, is changed
ClassesKept == \A c \in DOMAIN classes : c \in DOMAIN classes' /\ classes'[c] = classes[c]

Untouched ==
    /\ Len(envs) = 1 /\ DOMAIN envs[globals].variables = {"clock", "input"}
    /\ environment = globals
    /\ classes = <<>> /\ instances = <<>>
    /\ output = <<>> /\ kont = <<>>
    /\ ~had_runtime_error

\* C14: once the scanner, the parser or the resolver has reported an error,
\* no statement of the program is executed: the run of a file ends with
\* the interpreter untouched.  `class A < A {}` is reported by the resolver as a
\* class inheriting from itself and so is never executed.
C14_ErrorStopsPipeline ==
    /\ mode = "file" /\ had_error => phase = "done" /\ Untouched
    /\ program = SelfInherit /\ phase # "start" =>
           /\ had_error
           /\ errors \in {<<FrontError("scan")>>, <<FrontError("parse")>>,
                          <<ResolveError(Tok("A", 2), "A class cannot inherit from itself")>>}

C14_Witness ==
    /\ program = SelfInherit
    /\ phase = "done"
    /\ errors = <<ResolveError(Tok("A", 2), "A class cannot inherit from itself")>>
    /\ Untouched


\* some frame of the chain from `environment` up binds `name`: the chains
\* of EnvironmentInit link frame i to frame i - 1
BoundInChain(name) ==
    \E i \in 1..environment : ContainsKey(envs[i].variables, name)

\* C15: Environment::assign of a name that no frame of the chain binds
\* reports "Undefined variable" and changes no frame: the name is created
\* neither in the frame the call is made on nor in the root frame.
C15_AssignUndefined ==
    [][phase = "call" /\ ctl.m = "assign" /\ ~BoundInChain(ctl.name.lexeme) =>
           /\ envs' = envs
           /\ errors' = <<RuntimeError(ctl.name, "Undefined variable")>>
           /\ had_runtime_error'
           /\ phase' = "returned"]_vars

C15_Witness ==
    /\ phase = "returned"
    /\ Len(envs) = MaxDepth /\ environment = MaxDepth
    /\ errors = <<RuntimeError(Tok("a", 0), "Undefined variable")>>
    /\ ~BoundInChain("a")
    /\ BoundInChain("b")


\* the frame `distance` parent links above the frame the call is made on
\* (below 1: the chain is shorter than the distance)
Target == environment - ctl.distance

\* C16: get_at and assign_at read or write only the frame exactly
\* `distance` links above the receiver.  get_at answers with the binding of
\* that frame (frame i binds its names to the number i), and reports an
\* error when that frame does not bind the name, whatever the other frames
\* bind; assign_at stores into that frame and leaves every other frame and
\* every other name as they were; a chain shorter than the distance aborts.
C16_ExactFrame ==
    [][/\ phase = "call" /\ ctl.m = "get_at" =>
             /\ envs' = envs
             /\ IF Target < 1 THEN phase' = "panic"
                ELSE IF ctl.name.lexeme \in DOMAIN envs[Target].variables
                THEN ctl' = [st |-> "ok", v |-> Number(Target)]
                ELSE ctl'.st = "err"
       /\ phase = "call" /\ ctl.m = "assign_at" =>
             IF Target < 1 THEN phase' = "panic" /\ envs' = envs
             ELSE /\ phase' = "returned"
                  /\ \A i \in DOMAIN envs : i # Target => envs'[i] = envs[i]
                  /\ envs'[Target].enclosing = envs[Target].enclosing
                  /\ DOMAIN envs'[Target].variables =
                         DOMAIN envs[Target].variables \cup {ctl.name.lexeme}
                  /\ \A n \in DOMAIN envs'[Target].variables :
                         envs'[Target].variables[n] =
                             IF n = ctl.name.lexeme THEN ctl.value
                             ELSE envs[Target].variables[n]]_vars

\* get_at one link up from the innermost of three frames reported an error:
\* the frames below and above the one it read bind every name
C16_Witness ==
    /\ phase = "returned"
    /\ ctl = [st |-> "err", v |-> Null]
    /\ Len(envs) = 3 /\ environment = 3
    /\ DOMAIN envs[1].variables = Names
    /\ DOMAIN envs[2].variables = {}
    /\ DOMAIN envs[3].variables = Names


\* the scanner and the parser reported nothing, and the resolver has run
Resolved ==
    /\ phase # "start"
    /\ \A i \in DOMAIN errors : errors[i].kind \notin {"scan", "parse"}

\* the errors the resolver reported
ResolveErrors == SelectSeq(errors, LAMBDA e : e.kind = "resolve")

\* C17: a second declaration of a name in the same non-global scope (two
\* locals of one block, a local named like a parameter, two parameters of
\* the same name) is reported by the resolver at the second declaration and
\* the program does not run; the same name in a nested block, or declared
\* twice at global scope, is no error and the program runs, each read seeing
\* the nearest declaration.
C17_RedeclarationReported ==
    \A place \in RedeclarePlaces :
        program = Redeclare(place) /\ Resolved =>
            IF place \in {"block", "parameter", "parameters"}
            THEN /\ errors = <<ResolveError(Tok("a", 2),
                         "A variable is already defined with this name in this scope")>>
                 /\ phase = "done" /\ output = <<>>
            ELSE /\ errors = <<>>
                 /\ phase \in {"interpret", "done"}
                 /\ phase = "done" =>
                        output = IF place = "nested" THEN <<"2", "1">> ELSE <<"2">>

C17_Witness ==
    /\ program = Redeclare("parameters")
    /\ phase = "done"
    /\ ResolveErrors # <<>>
    /\ ResolveErrors[1].token = Tok("a", 2)


\* C18: a local variable read inside its own initializer is reported by
\* the resolver, with or without an outer variable of the same name, and no
\* statement of the program is executed; at global scope the initializer
\* reads the global defined earlier and the program runs.
C18_OwnInitializer ==
    \A place \in OwnInitializerPlaces :
        program = OwnInitializer(place) /\ Resolved =>
            IF place \in {"local", "shadow"}
            THEN /\ errors = <<ResolveError(Tok("a", 2),
                         "Cannot read local variable in its own initializer")>>
                 /\ phase = "done" /\ Untouched
            ELSE /\ errors = <<>>
                 /\ phase \in {"interpret", "done"}
                 /\ phase = "done" => output = <<"value">>

C18_Witness ==
    /\ program = OwnInitializer("shadow")
    /\ phase = "done"
    /\ ResolveErrors = <<ResolveError(Tok("a", 2),
           "Cannot read local variable in its own initializer")>>
    /\ Untouched


\* what the resolver is to report for ReturnProgram(place): the `return`
\* that is to be reported is the one at position 1
ReturnErrors(place) ==
    CASE place \in {"top", "top_value", "after_function", "after_class"} ->
           <<ResolveError(Tok("return", 1), "Cannot return from top-level code")>>
      [] place \in {"init_value", "after_in_init"} ->
           <<ResolveError(Tok("return", 1), "Cannot return a value from an initializer")>>
      [] OTHER -> <<>>

\* C19: `return` is reported exactly outside every function body, and
\* `return <value>` exactly when the innermost enclosing function is an
\* `init` method.  The function type is restored at the end of a function:
\* a `return <value>` of a function nested in `init` is accepted, one that
\* follows the nested function in `init` is reported, and a top-level
\* `return` after a function or class declaration is reported.  A reported
\* program does not run; an accepted one does.
C19_ReturnContext ==
    \A place \in ReturnPlaces :
        program = ReturnProgram(place) /\ Resolved =>
            /\ errors = ReturnErrors(place)
            /\ IF ReturnErrors(place) # <<>>
               THEN phase = "done" /\ Untouched
               ELSE /\ phase \in {"interpret", "done"}
                    /\ phase = "done" => output = <<"ran">>

C19_Witness ==
    /\ program = ReturnProgram("after_function")
    /\ phase = "done"
    /\ ResolveErrors = <<ResolveError(Tok("return", 1), "Cannot return from top-level code")>>


\* what the resolver is to report for ClassContext(place)
ClassContextErrors(place) ==
    CASE place \in {"this_top", "this_function", "this_after_class"} ->
           <<ResolveError(Tok("this", 1), "Cannot use 'this' outside of a class")>>
      [] place \in {"super_top", "super_function", "super_after_subclass"} ->
           <<ResolveError(Tok("super", 1), "Cannot use 'super' outside of a class")>>
      [] place \in {"super_in_class", "super_in_nested", "super_after_nested_subclass"} ->
           <<ResolveError(Tok("super", 1),
                 "Cannot use 'super' in a class with no superclass")>>
      [] OTHER -> <<>>

\* C20: `this` is reported exactly outside every class body; `super` is
\* reported outside every class body as "Cannot use 'super' outside of a
\* class" and in a class declared without a superclass as "Cannot use
\* 'super' in a class with no superclass".  The class type is restored at
\* the end of a class declaration: after a class nested in a method the
\* type of the enclosing class decides again, and after the outermost class
\* `this` and `super` are errors again.  A reported program does not run.
C20_ClassContext ==
    \A place \in ThisPlaces \cup SuperPlaces :
        program = ClassContext(place) /\ Resolved =>
            /\ errors = ClassContextErrors(place)
            /\ IF ClassContextErrors(place) # <<>>
               THEN phase = "done" /\ Untouched
               ELSE /\ phase \in {"interpret", "done"}
                    /\ phase = "done" => output = <<"ran">>

C20_Witness ==
    /\ program = ClassContext("super_after_nested_subclass")
    /\ phase = "done"
    /\ ResolveErrors = <<ResolveError(Tok("super", 1),
           "Cannot use 'super' in a class with no superclass")>>


\* the literals that count as false: false, null, 0 and the empty string
Falsy == {Null, Bool(FALSE), Number(0), String("")}

\* C21: `a and b` is the value of `a`, with `b` not evaluated, when `a` is
\* falsy, and the value of `b` otherwise; `a or b` is the value of `a`, with
\* `b` not evaluated, when `a` is truthy, and the value of `b` otherwise.
\* The value printed is the operand itself, never a boolean made from it,
\* and the assignment inside `b` happens exactly when `b` is evaluated.
C21_LogicalShortCircuit ==
    \A op \in {"and", "or"}, a \in LeftOperands, b \in RightOperands :
        program = LogicalProgram(op, a, b) /\ Finished =>
            LET short == IF op = "and" THEN a \in Falsy ELSE a \notin Falsy
            IN  /\ errors = <<>>
                /\ output = IF short
                            THEN <<Display(classes, instances, a), "unset">>
                            ELSE <<Display(classes, instances, b),
                                   Display(classes, instances, b)>>

C21_Witness ==
    /\ program = LogicalProgram("and", Number(0), String("b"))
    /\ Finished
    /\ output = <<"0", "unset">>


\* C22: `==` on two class, instance or function values is true when both
\* operands are the same object and false otherwise, `!=` the opposite, and
\* no runtime error is raised.
C22_IdentityEquality ==
    \A kind \in ObjectKinds, same \in Booleans, op \in {"==", "!="} :
        program = EqualsProgram(kind, same, op) /\ Resolved =>
            /\ ~had_runtime_error
            /\ phase = "done" =>
                   output = <<IF same = (op = "==") THEN "true" ELSE "false">>


\* C23: run_file ends the process with status 65 when a scan, parse or
\* resolve error was reported, with status 70 when a runtime error was
\* reported, and normally (status 0) only when no error was reported.
C23_ExitStatus ==
    mode = "file" /\ status # <<>> =>
        status = <<IF \E i \in DOMAIN errors : errors[i].kind \in {"scan", "parse", "resolve"}
                   THEN 65
                   ELSE IF \E i \in DOMAIN errors : errors[i].kind = "runtime"
                   THEN 70
                   ELSE 0>>


\* C24: a function body may refer to a global variable or function defined
\* after the function: the name is looked up in the global frame at each
\* call.  Both calls succeed, the first reads the global as defined by then
\* (not a local of the calling block), the second its later value.
C24_LateBoundGlobal ==
    \A v \in Booleans, b \in Booleans :
        program = LateGlobal(v, b) =>
            /\ ~had_runtime_error
            /\ phase # "panic"
            /\ Finished => output = <<"first", "second">>

C24_Witness ==
    /\ program = LateGlobal(TRUE, TRUE)
    /\ Finished
    /\ output = <<"first", "second">>
    /\ Global("g") = String("second")


\* what one run of the loop of BreakInLoop and the two prints after it
\* write: the iteration i = 0 in full, of the iteration i = 1 the part
\* before `break`, then c = 2 (the condition was evaluated twice) and i = 1
\* (no increment after the break)
OneLoop == <<"0", "after", "1", "2", "1">>

C26_BoundMethodKeepsThis ==
    program = BoundMethod =>
        /\ ~ContainsKey(envs[globals].variables, "this")
        /\ \A c \in DOMAIN classes : \A n \in DOMAIN classes[c].methods :
               classes[c].methods[n].closure = globals
        /\ Global("m").k = "function" =>
               /\ Global("m").closure # globals
               /\ envs[Global("m").closure].enclosing = globals
               /\ envs[Global("m").closure].variables = [this |-> Global("a")]
        /\ Global("k").k = "function" =>
               /\ Global("k").closure # Global("m").closure
               /\ envs[Global("k").closure].variables = [this |-> Global("b")]
        /\ Finished => output = <<"a", "a", "b", "a">>

C26_Witness ==
    /\ program = BoundMethod
    /\ Finished
    /\ output = <<"a", "a", "b", "a">>
    /\ envs[instances[Global("b").id].fields["other"].closure].variables
           = [this |-> Global("a")]


\* C27: a class declaration whose superclass expression is not a class
\* raises "Superclass must be a class" and is aborted: no class value is
\* constructed and the name of the class is not bound to a class.
C27_SuperclassMustBeClass ==
    \A kind \in NotClasses :
        program = BadSuperclass(kind) =>
            /\ classes = <<>>
            /\ Global("Foo").k # "class"
            /\ phase = "done" /\ Resolved =>
                   errors = <<RuntimeError(Tok("Foo", 2), "Superclass must be a class")>>


\* C28: in prompt mode an error reported for one line never keeps a later
\* line from running: a line for which the scanner, the parser and the
\* resolver report nothing is handed to the interpreter, whatever the lines
\* before it reported.
C28_PromptClearsErrors ==
    [][mode = "prompt" /\ phase = "start" /\ errors' = errors
           => phase' = "interpret"]_vars


\* the frame that holds the variables of the block a closure was made in
BodyFrame(f) == envs[Global(f).closure]

\* C29: closures made in a loop body capture the variables of their own
\* iteration: each iteration has a frame of its own, so the closures of two
\* iterations read different `j`.  The variable of a `for` initializer is
\* one variable for all iterations: both closures reach the same frame for
\* `i` and read its last value.
C29_LoopClosures ==
    \A f \in Booleans :
        program = LoopClosure(f) =>
            /\ ~had_runtime_error
            /\ phase # "panic"
            /\ Global("f1").k = "function" /\ Global("f2").k = "function" =>
                   /\ Global("f1").closure # Global("f2").closure
                   /\ BodyFrame("f1").variables["j"] = Number(1)
                   /\ BodyFrame("f2").variables["j"] = Number(2)
                   /\ f => LET shared == ancestor(envs, Global("f1").closure, 2)
                           IN  /\ shared = ancestor(envs, Global("f2").closure, 2)
                               /\ shared # globals
                               /\ DOMAIN envs[shared].variables = {"i"}
            /\ Finished => output = <<"3", "1", "3", "2">>

C29_Witness ==
    /\ program = LoopClosure(TRUE)
    /\ Finished
    /\ output = <<"3", "1", "3", "2">>
    /\ Global("f1").closure # Global("f2").closure


\* C30: what one run put into the resolution table never influences a later
\* run on the same interpreter.  The second line of StaleLocal reads the
\* global `a` with a token that the first line's resolver had resolved to a
\* local depth; the second line's resolver leaves it unresolved, so the read
\* is made in the global frame: it raises no error, does not abort, and
\* prints the global's value.
C30_TableOfEarlierRun ==
    \A depth \in 0..1, inBlock \in Booleans :
        mode = "prompt" /\ lines = <<>> /\ program = StaleLocal(depth, inBlock)[2] =>
            /\ phase # "panic"
            /\ ~had_runtime_error
            /\ phase = "prompt" /\ errors = <<>> => output = <<"global">>

====
